---- MODULE Spec2Model ----
(***************************************************************************)
(* Requestor-side negotiation broker of the market: the Agreement          *)
(* handshake (create_agreement, confirm_agreement, wait_for_approval, the   *)
(* AgreementApproved callback and its commit_agreement continuation), the  *)
(* Proposal exchange (counter_proposal, reject_proposal) and the pump that  *)
(* turns raw matches into initial Proposals, of                             *)
(* core/market/src/negotiation/requestor.rs.                                *)
(*                                                                          *)
(* The Store (AgreementDao), validate_transition, the AgreementLock and the *)
(* Notifier live outside requestor.rs; they are modelled from their         *)
(* contracts.  Every await of requestor.rs is one step of a task.           *)
(***************************************************************************)
EXTENDS Integers, FiniteSets, Sequences, TLC

\* ------------------------------------------------------------------ bounds
MaxTasks == 2      \* calls and continuations in flight at once
MaxOps == 4        \* API calls and peer callbacks started in one run
MaxTime == 1       \* ticks of the clock
MaxMatches == 2    \* raw matches the matcher sends to the pump
MaxProposals == 4  \* rows of the Store's Proposal table
MaxEvents == 3     \* events one query_events gets from the common broker

\* --------------------------------------------------------------- constants
None == "None"
Us == "Us"
Them == "Them"

\* The Proposal chains the Store holds: 1 <- 2 <- 3, 4 <- 5 <- 6 <- 7 and
\* 8 <- 9 <- 10.  The initial Proposal of a chain is the Offer the pump
\* generated (issuer Them, no prev); issuers alternate along a chain.
\* Proposal 11 is an initial Proposal this node issued itself (its Provider
\* side shares the Store): issuer Us, no prev.
ProposalIds == 1..11
UnknownProposal == 0
NoPrev == 0
ProposalPrev(p) == IF p \in {1, 4, 8, 11} THEN NoPrev ELSE p - 1
ProposalIssuer(p) == IF p \in {1, 3, 4, 6, 8, 10} THEN Them ELSE Us
\* A Proposal is superseded when a counter-Proposal to it is stored.
ProposalCountered(p) == \E q \in ProposalIds : ProposalPrev(q) = p
\* The Provider node negotiating a chain, and the Requestor identity owning it.
Providers == {"prov1", "prov2"}
ProposalProvider(p) == IF p <= 7 THEN "prov1" ELSE "prov2"
Identities == {"req1", "req2"}
ProposalRequestor(p) == "req1"

\* Agreement ids: Agreement::new derives the id from the promoted Proposals,
\* so an Agreement is identified by its offer Proposal.
AgreementIds == {3, 10}
Sessions == {None, "s1"}

States == {"Proposal", "Pending", "Approving", "Approved", "Rejected",
           "Cancelled", "Expired", "Terminated"}

NoAgreement == [state |-> "Absent", valid_to |-> 0, session |-> None,
                offer |-> 0, demand |-> 0, provider |-> None,
                requestor |-> None, owner |-> None, approved_ts |-> -1]

Idle == [kind |-> "idle", pc |-> "-", aid |-> 0, who |-> None,
         session |-> None, sub |-> "none", raced |-> FALSE, valid_to |-> 0,
         new |-> 0, first |-> FALSE, woken |-> FALSE]

NoEvent == [op |-> "-", aid |-> 0, who |-> None, res |-> "-", from |-> "-",
            arg |-> 0]

NoQuery == [common |-> TRUE, events |-> <<>>, res |-> "-", out |-> <<>>]

VARIABLES
    agreements,   \* the Store's Agreement table: id -> row
    now,          \* Utc::now()
    lock,         \* AgreementLock: AgreementIds -> holder task, 0 when free
    task,         \* calls and continuations in flight: 1..MaxTasks -> record
    created,      \* counter market.agreements.requestor.created
    confirmed,    \* counter market.agreements.requestor.confirmed
    approved,     \* counter market.agreements.requestor.approved
    proposed,     \* propose_agreement messages delivered to the peer, per id
    rejected,     \* counter market.agreements.requestor.rejected
    ops,          \* calls and callbacks started so far
    wasPending,   \* history: the Agreement has been stored as Pending
    ret,          \* what the last step returned or did (NoEvent when nothing)
    proposals,    \* the Store's Proposal table: sequence of rows, id = index
    sent,         \* Proposal messages delivered to the peer, in order
    countered,    \* counter market.proposals.requestor.countered
    rejected_by_us, \* counter market.proposals.requestor.rejected.by-us
    matches,      \* the channel of raw matches to the pump
    senderAlive,  \* the sending side of that channel is not dropped
    pump,         \* proposal_receiver_thread: its position and its match
    handled,      \* history: the matches passed to generate_proposal
    queried,      \* counter market.events.requestor.queried
    query         \* the last query_events: what common returned, the result

\* The negotiation of Proposals and the pump: what the Agreement handshake
\* leaves alone.
queryVars == <<queried, query>>

restVars == <<proposals, sent, countered, rejected_by_us, matches,
              senderAlive, pump, handled, queryVars>>

vars == <<agreements, now, lock, task, created, confirmed, approved,
          rejected, proposed, ops, wasPending, ret, restVars>>

\* The Agreement handshake: what the negotiation of Proposals leaves alone.
agreementVars == <<agreements, now, lock, created, confirmed, approved,
                   rejected, proposed, wasPending>>

Tasks == 1..MaxTasks

\* =================================================================== Store
\* The row of id a, NoAgreement when the table has none.
Agr(a) == IF a \in DOMAIN agreements THEN agreements[a] ELSE NoAgreement

AgrNext(a) ==
    IF a \in DOMAIN agreements' THEN agreements'[a] ELSE NoAgreement

\* The table with row, if there is one, written under id a.
Put(a, row) ==
    IF row = NoAgreement THEN agreements
    ELSE [b \in DOMAIN agreements \cup {a} |->
             IF b = a THEN row ELSE agreements[b]]

\* validate_transition(current, target): the legal transitions of the
\* Agreement state machine.
validate_transition_AllowAll(from, to) == TRUE
validate_transition(from, to) ==
    \/ from = "Proposal"  /\ to \in {"Pending", "Cancelled", "Expired"}
    \/ from = "Pending"   /\ to \in {"Approving", "Approved", "Rejected",
                                     "Cancelled", "Expired"}
    \/ from = "Approving" /\ to \in {"Approved", "Cancelled", "Expired"}
    \/ from = "Approved"  /\ to \in {"Terminated", "Expired"}

\* select(id, owner_filter, now): the row, None when absent or filtered out;
\* a Proposal or Pending Agreement whose valid_to <= now is stored as Expired
\* before it is returned.
SelectExpires_AnyState(agr, ts) ==
    /\ agr # NoAgreement
    /\ agr.valid_to <= ts

SelectExpires_Strict(agr, ts) ==
    /\ agr # NoAgreement
    /\ agr.valid_to < ts
    /\ agr.state \in {"Proposal", "Pending"}

SelectExpires(agr, ts) ==
    /\ agr # NoAgreement
    /\ agr.valid_to <= ts
    /\ agr.state \in {"Proposal", "Pending"}

SelectVisible(agr, filter) ==
    /\ agr # NoAgreement
    /\ filter \in {None, agr.requestor}

\* The row as select leaves it in the table.
SelectStored(agr, filter, ts) ==
    IF SelectVisible(agr, filter) /\ SelectExpires(agr, ts)
    THEN [agr EXCEPT !.state = "Expired"]
    ELSE agr

\* What select returns: the stored row, NoAgreement for None.
SelectResult(agr, filter, ts) ==
    IF SelectVisible(agr, filter) THEN SelectStored(agr, filter, ts)
    ELSE NoAgreement

\* confirm(id, session): Proposal -> Pending, sets app_session_id.
StoreConfirm(agr, session) ==
    [agr EXCEPT !.state = "Pending", !.session = session]

\* approve(id, None): {Pending, Approving} -> Approved, records approved_ts;
\* a None session leaves app_session_id alone.
StoreApprove(agr, ts) ==
    [agr EXCEPT !.state = "Approved", !.approved_ts = ts]

\* save(agreement): the new row, in state Proposal.
NewAgreement(p, valid_to) ==
    [state |-> "Proposal", valid_to |-> valid_to, session |-> None,
     offer |-> p, demand |-> ProposalPrev(p),
     provider |-> ProposalProvider(p),
     requestor |-> ProposalRequestor(ProposalPrev(p)),
     owner |-> "Requestor", approved_ts |-> -1]

\* ================================================================ Notifier
\* notify(key): every subscription listening on key gets the event.
Notified(tk, a) ==
    [t \in Tasks |->
        IF tk[t].kind = "wait" /\ tk[t].aid = a /\ tk[t].sub = "empty"
        THEN [tk[t] EXCEPT !.sub = "notified"]
        ELSE tk[t]]

\* unsubscribe_all(key): every subscription on key with an empty inbox gets
\* the Unsubscribed disposition.
Unsubscribed_FullInboxToo(tk, a) ==
    [t \in Tasks |->
        IF tk[t].kind = "wait" /\ tk[t].aid = a
           /\ tk[t].sub \in {"empty", "notified"}
        THEN [tk[t] EXCEPT !.sub = "unsubscribed"]
        ELSE tk[t]]

Unsubscribed(tk, a) ==
    [t \in Tasks |->
        IF tk[t].kind = "wait" /\ tk[t].aid = a /\ tk[t].sub = "empty"
        THEN [tk[t] EXCEPT !.sub = "unsubscribed"]
        ELSE tk[t]]

\* The sending side of the channel is dropped: subscriptions with an empty
\* inbox find it closed.
Closed(tk, a) ==
    [t \in Tasks |->
        IF tk[t].kind = "wait" /\ tk[t].aid = a /\ tk[t].sub = "empty"
        THEN [tk[t] EXCEPT !.sub = "closed"]
        ELSE tk[t]]

\* ============================================================ bookkeeping
Event(op, a, who, res, from, arg) ==
    [op |-> op, aid |-> a, who |-> who, res |-> res, from |-> from,
     arg |-> arg]

\* The slot a new call runs in: the lowest idle one.
FreeSlot(t) ==
    /\ task[t].kind = "idle"
    /\ \A u \in Tasks : u < t => task[u].kind # "idle"

\* History: a callback that arrived inside the critical section of a
\* confirm_agreement whose dao.confirm then failed did not race a commit.
NotRaced(tk, a) ==
    IF tk.aid = a THEN [tk EXCEPT !.raced = FALSE] ELSE tk

MarkPending(a, agr) ==
    IF agr.state = "Pending" THEN [wasPending EXCEPT ![a] = TRUE]
    ELSE wasPending

Init ==
    /\ agreements = <<>>
    /\ now = 0
    /\ lock = [a \in AgreementIds |-> 0]
    /\ task = [t \in Tasks |-> Idle]
    /\ created = 0
    /\ confirmed = 0
    /\ approved = 0
    /\ rejected = 0
    /\ proposed = [a \in AgreementIds |-> 0]
    /\ ops = 0
    /\ wasPending = [a \in AgreementIds |-> FALSE]
    /\ ret = NoEvent
    /\ proposals = <<>>
    /\ sent = <<>>
    /\ countered = 0
    /\ rejected_by_us = 0
    /\ matches = <<>>
    /\ senderAlive = TRUE
    /\ pump = [pc |-> "recv", match |-> 0]
    /\ handled = <<>>
    /\ queried = 0
    /\ query = NoQuery

\* =================================================================== clock
Tick ==
    /\ now < MaxTime
    /\ now' = now + 1
    /\ ret' = NoEvent
    /\ UNCHANGED <<agreements, lock, task, created, confirmed, approved,
                   proposed, ops, wasPending, rejected, restVars>>

\* ======================================================== create_agreement
\* The result of create_agreement(id, p, valid_to) against the Store; dbOk
\* is FALSE when the save fails inside the database.
CreateResult_NoIssuerCheck(p, dbOk) ==
    IF p \notin ProposalIds THEN "ProposalNotFound"
    ELSE IF ProposalPrev(p) = NoPrev THEN "NoNegotiations"
    ELSE IF ProposalCountered(p) THEN "ProposalCountered"
    ELSE IF Agr(p) # NoAgreement THEN "AlreadyExists"
    ELSE IF ~dbOk THEN "Save"
    ELSE "Ok"

CreateResult_PrevCheckedFirst(p, dbOk) ==
    IF p \notin ProposalIds THEN "ProposalNotFound"
    ELSE IF ProposalPrev(p) = NoPrev THEN "NoNegotiations"
    ELSE IF ProposalIssuer(p) # Them THEN "OwnProposal"
    ELSE IF ProposalCountered(p) THEN "ProposalCountered"
    ELSE IF Agr(p) # NoAgreement THEN "AlreadyExists"
    ELSE IF ~dbOk THEN "Save"
    ELSE "Ok"

CreateResult(p, dbOk) ==
    IF p \notin ProposalIds THEN "ProposalNotFound"
    ELSE IF ProposalIssuer(p) # Them THEN "OwnProposal"
    ELSE IF ProposalPrev(p) = NoPrev THEN "NoNegotiations"
    ELSE IF ProposalCountered(p) THEN "ProposalCountered"
    ELSE IF Agr(p) # NoAgreement THEN "AlreadyExists"
    ELSE IF ~dbOk THEN "Save"
    ELSE "Ok"

create_agreement(id, p, valid_to, dbOk) ==
    /\ ops < MaxOps
    /\ ops' = ops + 1
    /\ LET res == CreateResult(p, dbOk) IN
       /\ ret' = Event("create_agreement", p, None, res, "-", valid_to)
       /\ IF res = "Ok"
          THEN /\ agreements' = Put(p, NewAgreement(p, valid_to))
               /\ created' = created + 1
          ELSE UNCHANGED <<agreements, created>>
    /\ UNCHANGED <<now, lock, task, confirmed, approved, proposed, wasPending,
                   rejected, restVars>>

\* create_agreement as a task, one step per await.  Proposals never change,
\* so only the save reads what other calls write: create_agreement above
\* takes the call in one step, the actions below interleave concurrent calls.
StartCreate(t, id, p, valid_to) ==
    /\ ops < MaxOps
    /\ FreeSlot(t)
    /\ ops' = ops + 1
    /\ task' = [task EXCEPT ![t] = [Idle EXCEPT !.kind = "create",
                   !.pc = "offer", !.aid = p, !.who = id,
                   !.valid_to = valid_to]]
    /\ ret' = NoEvent
    /\ UNCHANGED <<agreements, now, lock, created, confirmed, approved,
                   proposed, wasPending, rejected, restVars>>

\* get_proposal(None, offer_proposal_id), the issuer and the prev_id.
CreateOfferResult(p) ==
    IF p \notin ProposalIds THEN "ProposalNotFound"
    ELSE IF ProposalIssuer(p) # Them THEN "OwnProposal"
    ELSE IF ProposalPrev(p) = NoPrev THEN "NoNegotiations"
    ELSE "Ok"

CreateOffer(t) ==
    /\ task[t].kind = "create" /\ task[t].pc = "offer"
    /\ LET res == CreateOfferResult(task[t].aid) IN
       IF res = "Ok"
       THEN /\ task' = [task EXCEPT ![t].pc = "demand"]
            /\ ret' = NoEvent
       ELSE /\ task' = [task EXCEPT ![t] = Idle]
            /\ ret' = Event("create_agreement", task[t].aid, None, res, "-",
                            task[t].valid_to)
    /\ UNCHANGED <<agreements, now, lock, created, confirmed, approved,
                   proposed, ops, wasPending, rejected, restVars>>

\* get_proposal(None, &demand_proposal_id)
CreateDemand(t) ==
    /\ task[t].kind = "create" /\ task[t].pc = "demand"
    /\ IF ProposalPrev(task[t].aid) \in ProposalIds
       THEN /\ task' = [task EXCEPT ![t].pc = "save"]
            /\ ret' = NoEvent
       ELSE /\ task' = [task EXCEPT ![t] = Idle]
            /\ ret' = Event("create_agreement", task[t].aid, None,
                            "ProposalNotFound", "-", task[t].valid_to)
    /\ UNCHANGED <<agreements, now, lock, created, confirmed, approved,
                   proposed, ops, wasPending, rejected, restVars>>

\* The answer of save(agreement), mapped to AgreementError.
CreateSaveResult_NoExistsCheck(p, dbOk) ==
    IF ProposalCountered(p) THEN "ProposalCountered"
    ELSE IF ~dbOk THEN "Save"
    ELSE "Ok"

CreateSaveResult(p, dbOk) ==
    IF ProposalCountered(p) THEN "ProposalCountered"
    ELSE IF Agr(p) # NoAgreement THEN "AlreadyExists"
    ELSE IF ~dbOk THEN "Save"
    ELSE "Ok"

\* Agreement::new, save(agreement) and the created counter.
CreateSave(t, dbOk) ==
    /\ task[t].kind = "create" /\ task[t].pc = "save"
    /\ LET p == task[t].aid
           res == CreateSaveResult(p, dbOk)
       IN
       /\ ret' = Event("create_agreement", p, None, res, "-",
                       task[t].valid_to)
       /\ IF res = "Ok"
          THEN /\ agreements' = Put(p, NewAgreement(p, task[t].valid_to))
               /\ created' = created + 1
          ELSE UNCHANGED <<agreements, created>>
    /\ task' = [task EXCEPT ![t] = Idle]
    /\ UNCHANGED <<now, lock, confirmed, approved, proposed, ops, wasPending,
                   rejected, restVars>>

\* ============================================================ AgreementLock
\* lock(id).await: granted when no guard for id is alive.
LockFree(a) == lock[a] = 0

Release(a) == [lock EXCEPT ![a] = 0]

\* ======================================================= confirm_agreement
StartConfirm(t, id, a, session) ==
    /\ ops < MaxOps
    /\ FreeSlot(t)
    /\ ops' = ops + 1
    /\ task' = [task EXCEPT ![t] = [Idle EXCEPT !.kind = "confirm",
                   !.pc = "lock", !.aid = a, !.who = id,
                   !.session = session]]
    /\ ret' = NoEvent
    /\ UNCHANGED <<agreements, now, lock, created, confirmed, approved,
                   proposed, wasPending, rejected, restVars>>

\* let _hold = agreement_lock.lock(&agreement_id).await
ConfirmLock_NoLock(t) ==
    /\ task[t].kind = "confirm" /\ task[t].pc = "lock"
    /\ task' = [task EXCEPT ![t].pc = "select"]
    /\ ret' = NoEvent
    /\ UNCHANGED <<agreements, now, lock, created, confirmed, approved,
                   proposed, ops, wasPending, rejected, restVars>>

ConfirmLock(t) ==
    /\ task[t].kind = "confirm" /\ task[t].pc = "lock"
    /\ LockFree(task[t].aid)
    /\ lock' = [lock EXCEPT ![task[t].aid] = t]
    /\ task' = [task EXCEPT ![t].pc = "select"]
    /\ ret' = NoEvent
    /\ UNCHANGED <<agreements, now, created, confirmed, approved, proposed,
                   ops, wasPending, rejected, restVars>>

\* validate_transition(&agreement, AgreementState::Pending)?
ConfirmValidates_Skipped(got) == TRUE
ConfirmValidates_PendingAgain(got) ==
    got.state = "Pending" \/ validate_transition(got.state, "Pending")

ConfirmValidates(got) == validate_transition(got.state, "Pending")

\* dao.select(agreement_id, Some(identity), now), then the validation.
ConfirmSelect_NoOwnerFilter(t) ==
    /\ task[t].kind = "confirm" /\ task[t].pc = "select"
    /\ LET a == task[t].aid
           got == SelectResult(Agr(a), None, now)
       IN
       /\ agreements' = Put(a, SelectStored(Agr(a), None, now))
       /\ IF got = NoAgreement
          THEN /\ ret' = Event("confirm_agreement", a, task[t].who,
                               "NotFound", "-", 0)
               /\ task' = [task EXCEPT ![t] = Idle]
               /\ lock' = Release(a)
          ELSE IF ~ConfirmValidates(got)
          THEN /\ ret' = Event("confirm_agreement", a, task[t].who,
                               "InvalidTransition", got.state, 0)
               /\ task' = [task EXCEPT ![t] = Idle]
               /\ lock' = Release(a)
          ELSE /\ ret' = NoEvent
               /\ task' = [task EXCEPT ![t].pc = "propose"]
               /\ lock' = lock
    /\ UNCHANGED <<now, created, confirmed, approved, proposed, ops,
                   wasPending, rejected, restVars>>

ConfirmSelect(t) ==
    /\ task[t].kind = "confirm" /\ task[t].pc = "select"
    /\ LET a == task[t].aid
           got == SelectResult(Agr(a), task[t].who, now)
       IN
       /\ agreements' = Put(a, SelectStored(Agr(a), task[t].who, now))
       /\ IF got = NoAgreement
          THEN /\ ret' = Event("confirm_agreement", a, task[t].who,
                               "NotFound", "-", 0)
               /\ task' = [task EXCEPT ![t] = Idle]
               /\ lock' = Release(a)
          ELSE IF ~ConfirmValidates(got)
          THEN /\ ret' = Event("confirm_agreement", a, task[t].who,
                               "InvalidTransition", got.state, 0)
               /\ task' = [task EXCEPT ![t] = Idle]
               /\ lock' = Release(a)
          ELSE /\ ret' = NoEvent
               /\ task' = [task EXCEPT ![t].pc = "propose"]
               /\ lock' = lock
    /\ UNCHANGED <<now, created, confirmed, approved, proposed, ops,
                   wasPending, rejected, restVars>>

\* self.api.propose_agreement(&agreement).await?
ConfirmPropose_ErrorIgnored(t, delivered) ==
    /\ task[t].kind = "confirm" /\ task[t].pc = "propose"
    /\ proposed' = IF delivered
                   THEN [proposed EXCEPT ![task[t].aid] = @ + 1]
                   ELSE proposed
    /\ task' = [task EXCEPT ![t].pc = "confirm"]
    /\ ret' = NoEvent
    /\ UNCHANGED <<agreements, now, lock, created, confirmed, approved, ops,
                   wasPending, rejected, restVars>>

ConfirmPropose(t, delivered) ==
    /\ task[t].kind = "confirm" /\ task[t].pc = "propose"
    /\ LET a == task[t].aid IN
       IF delivered
       THEN /\ proposed' = [proposed EXCEPT ![a] = @ + 1]
            /\ task' = [task EXCEPT ![t].pc = "confirm"]
            /\ ret' = NoEvent
            /\ lock' = lock
       ELSE /\ proposed' = proposed
            /\ task' = [task EXCEPT ![t] = Idle]
            /\ ret' = Event("confirm_agreement", a, task[t].who, "Send",
                            "-", 0)
            /\ lock' = Release(a)
    /\ UNCHANGED <<agreements, now, created, confirmed, approved, ops,
                   wasPending, rejected, restVars>>

\* dao.confirm(agreement_id, &app_session_id).await, the guard dropped, the
\* counter incremented.
ConfirmStore_Blind(t, dbOk) ==
    /\ task[t].kind = "confirm" /\ task[t].pc = "confirm"
    /\ LET a == task[t].aid
           cur == Agr(a)
       IN
       /\ IF dbOk /\ cur # NoAgreement
          THEN /\ agreements' = Put(a, StoreConfirm(cur, task[t].session))
               /\ confirmed' = confirmed + 1
               /\ ret' = Event("confirm_agreement", a, task[t].who, "Ok",
                               "-", 0)
          ELSE /\ UNCHANGED <<agreements, confirmed>>
               /\ ret' = Event("confirm_agreement", a, task[t].who,
                               "UpdateState",
                               IF dbOk THEN cur.state ELSE "-", 0)
       /\ wasPending' = MarkPending(a, AgrNext(a))
       /\ lock' = Release(a)
       /\ task' = [u \in Tasks |->
                     IF u = t THEN Idle
                     ELSE IF AgrNext(a).state = "Pending" THEN task[u]
                     ELSE NotRaced(task[u], a)]
    /\ UNCHANGED <<now, created, approved, proposed, ops, rejected, restVars>>

ConfirmStore(t, dbOk) ==
    /\ task[t].kind = "confirm" /\ task[t].pc = "confirm"
    /\ LET a == task[t].aid
           cur == Agr(a)
       IN
       /\ IF dbOk /\ validate_transition(cur.state, "Pending")
          THEN /\ agreements' = Put(a, StoreConfirm(cur, task[t].session))
               /\ confirmed' = confirmed + 1
               /\ ret' = Event("confirm_agreement", a, task[t].who, "Ok",
                               "-", 0)
          ELSE /\ UNCHANGED <<agreements, confirmed>>
               /\ ret' = Event("confirm_agreement", a, task[t].who,
                               "UpdateState",
                               IF dbOk THEN cur.state ELSE "-", 0)
       /\ wasPending' = MarkPending(a, AgrNext(a))
       /\ lock' = Release(a)
       /\ task' = [u \in Tasks |->
                     IF u = t THEN Idle
                     ELSE IF AgrNext(a).state = "Pending" THEN task[u]
                     ELSE NotRaced(task[u], a)]
    /\ UNCHANGED <<now, created, approved, proposed, ops, rejected, restVars>>


\* =============================================== AgreementApproved callback
\* caller.parse::<NodeId>(): a string that is no node id fails before anything
\* is locked or read.
BadCaller == "not-a-node-id"
Callers == Providers \cup {BadCaller}

ApprovedBadCaller(caller, a) ==
    /\ ops < MaxOps
    /\ caller = BadCaller
    /\ ops' = ops + 1
    /\ ret' = Event("agreement_approved", a, caller, "CallerParseError",
                    "-", 0)
    /\ UNCHANGED <<agreements, now, lock, task, created, confirmed, approved,
                   proposed, wasPending, rejected, restVars>>

\* The callback arrived while confirm_agreement holds the lock of the same
\* Agreement between propose_agreement and dao.confirm.
ArrivedInsideConfirm(a) ==
    /\ lock[a] # 0
    /\ task[lock[a]].kind = "confirm"
    /\ task[lock[a]].pc = "confirm"

StartApproved(t, caller, a) ==
    /\ ops < MaxOps
    /\ FreeSlot(t)
    /\ caller # BadCaller
    /\ ops' = ops + 1
    /\ ret' = NoEvent
    /\ task' = [task EXCEPT ![t] = [Idle EXCEPT !.kind = "approved",
                   !.pc = "lock", !.aid = a, !.who = caller,
                   !.raced = ArrivedInsideConfirm(a)]]
    /\ UNCHANGED <<agreements, now, lock, created, confirmed, approved,
                   proposed, wasPending, rejected, restVars>>

\* let _hold = broker.agreement_lock.lock(&msg.agreement_id).await
ApprovedLock_NoWait(t) ==
    /\ task[t].kind = "approved" /\ task[t].pc = "lock"
    /\ lock' = [lock EXCEPT ![task[t].aid] = t]
    /\ task' = [task EXCEPT ![t].pc = "select"]
    /\ ret' = NoEvent
    /\ UNCHANGED <<agreements, now, created, confirmed, approved, proposed,
                   ops, wasPending, rejected, restVars>>

ApprovedLock(t) ==
    /\ task[t].kind = "approved" /\ task[t].pc = "lock"
    /\ LockFree(task[t].aid)
    /\ lock' = [lock EXCEPT ![task[t].aid] = t]
    /\ task' = [task EXCEPT ![t].pc = "select"]
    /\ ret' = NoEvent
    /\ UNCHANGED <<agreements, now, created, confirmed, approved, proposed,
                   ops, wasPending, rejected, restVars>>

\* The RemoteAgreementError an illegal transition is converted to by `?`.
RemoteOfTransition(from) == "InvalidState"

\* What agreement_approved answers for the row select returned: the caller
\* check comes before validate_transition(&agreement, Approving).
ApprovedAnswer_NoCallerCheck(got, caller) ==
    IF got = NoAgreement THEN "NotFound"
    ELSE IF ~validate_transition(got.state, "Approving")
    THEN RemoteOfTransition(got.state)
    ELSE "Ok"

ApprovedAnswer_ValidateFirst(got, caller) ==
    IF got = NoAgreement THEN "NotFound"
    ELSE IF ~validate_transition(got.state, "Approving")
    THEN RemoteOfTransition(got.state)
    ELSE IF got.provider # caller THEN "NotFound"
    ELSE "Ok"

ApprovedAnswer_ProposalAccepted(got, caller) ==
    IF got = NoAgreement THEN "NotFound"
    ELSE IF got.provider # caller THEN "NotFound"
    ELSE IF got.state # "Proposal"
            /\ ~validate_transition(got.state, "Approving")
    THEN RemoteOfTransition(got.state)
    ELSE "Ok"

ApprovedAnswer(got, caller) ==
    IF got = NoAgreement THEN "NotFound"
    ELSE IF got.provider # caller THEN "NotFound"
    ELSE IF ~validate_transition(got.state, "Approving")
    THEN RemoteOfTransition(got.state)
    ELSE "Ok"

\* dao.select(id, None, now), the checks, the guard dropped; an accepted
\* callback spawns commit_agreement and returns Ok to the Provider.  The
\* spawned continuation takes over the slot of the callback that returned.
ApprovedSelect_NoSpawn(t) ==
    /\ task[t].kind = "approved" /\ task[t].pc = "select"
    /\ LET a == task[t].aid
           got == SelectResult(Agr(a), None, now)
           ans == ApprovedAnswer(got, task[t].who)
       IN
       /\ agreements' = Put(a, SelectStored(Agr(a), None, now))
       /\ ret' = Event("agreement_approved", a, task[t].who, ans,
                       IF ans = "InvalidState" THEN got.state ELSE "-",
                       IF task[t].raced THEN 1 ELSE 0)
       /\ task' = [task EXCEPT ![t] = Idle]
       /\ lock' = Release(a)
    /\ UNCHANGED <<now, created, confirmed, approved, proposed, ops,
                   wasPending, rejected, restVars>>

ApprovedSelect_StoresApproving(t) ==
    /\ task[t].kind = "approved" /\ task[t].pc = "select"
    /\ LET a == task[t].aid
           got == SelectResult(Agr(a), None, now)
           ans == ApprovedAnswer(got, task[t].who)
       IN
       /\ agreements' = IF ans = "Ok"
                        THEN Put(a, [got EXCEPT !.state = "Approving",
                                                !.approved_ts = now])
                        ELSE Put(a, SelectStored(Agr(a), None, now))
       /\ ret' = Event("agreement_approved", a, task[t].who, ans,
                       IF ans = "InvalidState" THEN got.state ELSE "-",
                       IF task[t].raced THEN 1 ELSE 0)
       /\ IF ans = "Ok"
          THEN task' = [task EXCEPT ![t] = [Idle EXCEPT !.kind = "commit",
                           !.pc = "lock", !.aid = a,
                           !.raced = task[t].raced]]
          ELSE task' = [task EXCEPT ![t] = Idle]
       /\ lock' = Release(a)
    /\ UNCHANGED <<now, created, confirmed, approved, proposed, ops,
                   wasPending, rejected, restVars>>

ApprovedSelect(t) ==
    /\ task[t].kind = "approved" /\ task[t].pc = "select"
    /\ LET a == task[t].aid
           got == SelectResult(Agr(a), None, now)
           ans == ApprovedAnswer(got, task[t].who)
       IN
       /\ agreements' = Put(a, SelectStored(Agr(a), None, now))
       /\ ret' = Event("agreement_approved", a, task[t].who, ans,
                       IF ans = "InvalidState" THEN got.state ELSE "-",
                       IF task[t].raced THEN 1 ELSE 0)
       /\ IF ans = "Ok"
          THEN task' = [task EXCEPT ![t] = [Idle EXCEPT !.kind = "commit",
                           !.pc = "lock", !.aid = a,
                           !.raced = task[t].raced]]
          ELSE task' = [task EXCEPT ![t] = Idle]
       /\ lock' = Release(a)
    /\ UNCHANGED <<now, created, confirmed, approved, proposed, ops,
                   wasPending, rejected, restVars>>

\* ======================================================== commit_agreement
\* let _hold = broker.agreement_lock.lock(&agreement_id).await
CommitLock(t) ==
    /\ task[t].kind = "commit" /\ task[t].pc = "lock"
    /\ LockFree(task[t].aid)
    /\ lock' = [lock EXCEPT ![task[t].aid] = t]
    /\ task' = [task EXCEPT ![t].pc = "select"]
    /\ ret' = NoEvent
    /\ UNCHANGED <<agreements, now, created, confirmed, approved, proposed,
                   ops, wasPending, rejected, restVars>>

\* dao.select(id, None, now): a missing row ends the continuation.
CommitSelect(t) ==
    /\ task[t].kind = "commit" /\ task[t].pc = "select"
    /\ LET a == task[t].aid
           got == SelectResult(Agr(a), None, now)
       IN
       /\ agreements' = Put(a, SelectStored(Agr(a), None, now))
       /\ IF got = NoAgreement
          THEN /\ ret' = Event("commit_agreement", a, None, "NotFound",
                               "-", 0)
               /\ task' = [task EXCEPT ![t] = Idle]
               /\ lock' = Release(a)
          ELSE /\ ret' = NoEvent
               /\ task' = [task EXCEPT ![t].pc = "approve",
                                        ![t].session = got.session]
               /\ lock' = lock
    /\ UNCHANGED <<now, created, confirmed, approved, proposed, ops,
                   wasPending, rejected, restVars>>

ApproveError_ExpiredAsInvalidState(dbOk, from) ==
    IF ~dbOk THEN "InternalError"
    ELSE "InvalidState"

\* The map_err of dao.approve's error.
ApproveError(dbOk, from) ==
    IF ~dbOk THEN "InternalError"
    ELSE IF from = "Expired" THEN "Expired"
    ELSE "InvalidState"

\* dao.approve(&agreement_id, &None).await and the guard dropped.  A failed
\* approve ends the continuation: nothing is notified or counted.
CommitApprove_NotifiesOnFailure(t, dbOk) ==
    /\ task[t].kind = "commit" /\ task[t].pc = "approve"
    /\ LET a == task[t].aid
           cur == Agr(a)
       IN
       /\ agreements' = IF dbOk /\ validate_transition(cur.state, "Approved")
                        THEN Put(a, StoreApprove(cur, now))
                        ELSE agreements
       /\ ret' = NoEvent
       /\ task' = [task EXCEPT ![t].pc = "notify"]
       /\ lock' = Release(a)
    /\ UNCHANGED <<now, created, confirmed, approved, proposed, ops,
                   wasPending, rejected, restVars>>

CommitApprove_FailureKeepsLock(t, dbOk) ==
    /\ task[t].kind = "commit" /\ task[t].pc = "approve"
    /\ LET a == task[t].aid
           cur == Agr(a)
       IN
       IF dbOk /\ validate_transition(cur.state, "Approved")
       THEN /\ agreements' = Put(a, StoreApprove(cur, now))
            /\ ret' = NoEvent
            /\ task' = [task EXCEPT ![t].pc = "notify"]
            /\ lock' = Release(a)
       ELSE /\ agreements' = agreements
            /\ ret' = Event("commit_agreement", a, None,
                            ApproveError(dbOk, cur.state),
                            IF dbOk THEN cur.state ELSE "-",
                            IF task[t].raced THEN 1 ELSE 0)
            /\ task' = [task EXCEPT ![t] = Idle]
            /\ lock' = lock
    /\ UNCHANGED <<now, created, confirmed, approved, proposed, ops,
                   wasPending, rejected, restVars>>

CommitApprove(t, dbOk) ==
    /\ task[t].kind = "commit" /\ task[t].pc = "approve"
    /\ LET a == task[t].aid
           cur == Agr(a)
       IN
       /\ IF dbOk /\ validate_transition(cur.state, "Approved")
          THEN /\ agreements' = Put(a, StoreApprove(cur, now))
               /\ ret' = NoEvent
               /\ task' = [task EXCEPT ![t].pc = "notify"]
          ELSE /\ agreements' = agreements
               /\ ret' = Event("commit_agreement", a, None,
                               ApproveError(dbOk, cur.state),
                               IF dbOk THEN cur.state ELSE "-",
                               IF task[t].raced THEN 1 ELSE 0)
               /\ task' = [task EXCEPT ![t] = Idle]
       /\ lock' = Release(a)
    /\ UNCHANGED <<now, created, confirmed, approved, proposed, ops,
                   wasPending, rejected, restVars>>

\* broker.notify_agreement(&agreement).await, then the approved counter.
CommitNotify_NobodyNotified(t) ==
    /\ task[t].kind = "commit" /\ task[t].pc = "notify"
    /\ task' = [task EXCEPT ![t] = Idle]
    /\ ret' = Event("commit_agreement", task[t].aid, task[t].session, "Ok",
                    "-", IF task[t].raced THEN 1 ELSE 0)
    /\ approved' = approved + 1
    /\ UNCHANGED <<agreements, now, lock, created, confirmed, proposed, ops,
                   wasPending, rejected, restVars>>

CommitNotify_NotCounted(t) ==
    /\ task[t].kind = "commit" /\ task[t].pc = "notify"
    /\ LET a == task[t].aid IN
       /\ task' = [Notified(task, a) EXCEPT ![t] = Idle]
       /\ ret' = Event("commit_agreement", a, task[t].session, "Ok",
                       "-", IF task[t].raced THEN 1 ELSE 0)
    /\ UNCHANGED <<agreements, now, lock, created, confirmed, approved,
                   proposed, ops, wasPending, rejected, restVars>>

CommitNotify(t) ==
    /\ task[t].kind = "commit" /\ task[t].pc = "notify"
    /\ LET a == task[t].aid IN
       /\ task' = [Notified(task, a) EXCEPT ![t] = Idle]
       /\ ret' = Event("commit_agreement", a, task[t].session, "Ok",
                       "-", IF task[t].raced THEN 1 ELSE 0)
    /\ approved' = approved + 1
    /\ UNCHANGED <<agreements, now, lock, created, confirmed, proposed, ops,
                   wasPending, rejected, restVars>>


\* ======================================================= wait_for_approval
\* agreement_notifier.listen(id), before the first read.
StartWait_ReadBeforeListen(t, a) ==
    /\ ops < MaxOps
    /\ FreeSlot(t)
    /\ ops' = ops + 1
    /\ ret' = NoEvent
    /\ task' = [task EXCEPT ![t] = [Idle EXCEPT !.kind = "wait",
                   !.pc = "select", !.aid = a]]
    /\ UNCHANGED <<agreements, now, lock, created, confirmed, approved,
                   proposed, wasPending, rejected, restVars>>

StartWait(t, a) ==
    /\ ops < MaxOps
    /\ FreeSlot(t)
    /\ ops' = ops + 1
    /\ ret' = NoEvent
    /\ task' = [task EXCEPT ![t] = [Idle EXCEPT !.kind = "wait",
                   !.pc = "select", !.aid = a, !.sub = "empty"]]
    /\ UNCHANGED <<agreements, now, lock, created, confirmed, approved,
                   proposed, wasPending, rejected, restVars>>

\* The match on agreement.state: the result returned, "-" to keep waiting.
WaitAnswer_ProposalWaits(got) ==
    IF got = NoAgreement THEN "NotFound"
    ELSE CASE got.state = "Approved" -> "Approved"
           [] got.state = "Rejected" -> "Rejected"
           [] got.state = "Cancelled" -> "Cancelled"
           [] got.state = "Expired" -> "Expired"
           [] got.state = "Terminated" -> "Terminated"
           [] OTHER -> "-"

WaitAnswer_ApprovedWaits(got) ==
    IF got = NoAgreement THEN "NotFound"
    ELSE CASE got.state = "Rejected" -> "Rejected"
           [] got.state = "Cancelled" -> "Cancelled"
           [] got.state = "Expired" -> "Expired"
           [] got.state = "Proposal" -> "NotConfirmed"
           [] got.state = "Terminated" -> "Terminated"
           [] OTHER -> "-"

WaitAnswer(got) ==
    IF got = NoAgreement THEN "NotFound"
    ELSE CASE got.state = "Approved" -> "Approved"
           [] got.state = "Rejected" -> "Rejected"
           [] got.state = "Cancelled" -> "Cancelled"
           [] got.state = "Expired" -> "Expired"
           [] got.state = "Proposal" -> "NotConfirmed"
           [] got.state = "Terminated" -> "Terminated"
           [] OTHER -> "-"

\* dao.select(id, None, now) of the loop; no lock is taken.
WaitSelect(t) ==
    /\ task[t].kind = "wait" /\ task[t].pc = "select"
    /\ LET a == task[t].aid
           got == SelectResult(Agr(a), None, now)
           ans == WaitAnswer(got)
       IN
       /\ agreements' = Put(a, SelectStored(Agr(a), None, now))
       /\ IF ans = "-"
          THEN /\ ret' = NoEvent
               /\ task' = [task EXCEPT ![t].pc = "wait"]
          ELSE /\ ret' = Event("wait_for_approval", a, None, ans, "-", 0)
               /\ task' = [task EXCEPT ![t] = Idle]
    /\ UNCHANGED <<now, lock, created, confirmed, approved, proposed, ops,
                   wasPending, rejected, restVars>>

\* notifier.wait_for_event_with_timeout(timeout): Ok, back to the select.
WaitWoken(t) ==
    /\ task[t].kind = "wait" /\ task[t].pc = "wait"
    /\ task[t].sub = "notified"
    /\ task' = [task EXCEPT ![t].pc = "select", ![t].sub = "empty",
                            ![t].woken = TRUE]
    /\ ret' = NoEvent
    /\ UNCHANGED <<agreements, now, lock, created, confirmed, approved,
                   proposed, ops, wasPending, rejected, restVars>>

\* NotifierError::Timeout: nothing arrived within the timeout.
WaitTimeout_Never(t) ==
    /\ task[t].kind = "wait" /\ task[t].pc = "wait"
    /\ FALSE
    /\ UNCHANGED vars

WaitTimeout(t) ==
    /\ task[t].kind = "wait" /\ task[t].pc = "wait"
    /\ task[t].sub = "empty"
    /\ task' = [task EXCEPT ![t] = Idle]
    /\ ret' = Event("wait_for_approval", task[t].aid, None, "Timeout",
                    "-", 0)
    /\ UNCHANGED <<agreements, now, lock, created, confirmed, approved,
                   proposed, ops, wasPending, rejected, restVars>>

\* NotifierError::Unsubscribed: Ok(ApprovalStatus::Cancelled).
WaitUnsubscribed_AsInternal(t) ==
    /\ task[t].kind = "wait" /\ task[t].pc = "wait"
    /\ task[t].sub = "unsubscribed"
    /\ task' = [task EXCEPT ![t] = Idle]
    /\ ret' = Event("wait_for_approval", task[t].aid, None, "Internal",
                    "Unsubscribed", 0)
    /\ UNCHANGED <<agreements, now, lock, created, confirmed, approved,
                   proposed, ops, wasPending, rejected, restVars>>

WaitUnsubscribed(t) ==
    /\ task[t].kind = "wait" /\ task[t].pc = "wait"
    /\ task[t].sub = "unsubscribed"
    /\ task' = [task EXCEPT ![t] = Idle]
    /\ ret' = Event("wait_for_approval", task[t].aid, None, "Cancelled",
                    "Unsubscribed", 0)
    /\ UNCHANGED <<agreements, now, lock, created, confirmed, approved,
                   proposed, ops, wasPending, rejected, restVars>>

\* NotifierError::ChannelClosed: Err(WaitForApprovalError::Internal).
WaitClosed(t) ==
    /\ task[t].kind = "wait" /\ task[t].pc = "wait"
    /\ task[t].sub = "closed"
    /\ task' = [task EXCEPT ![t] = Idle]
    /\ ret' = Event("wait_for_approval", task[t].aid, None, "Internal",
                    "ChannelClosed", 0)
    /\ UNCHANGED <<agreements, now, lock, created, confirmed, approved,
                   proposed, ops, wasPending, rejected, restVars>>

\* Notifier.unsubscribe_all(id), triggered outside requestor.rs.
UnsubscribeAll(a) ==
    /\ Unsubscribed(task, a) # task
    /\ task' = Unsubscribed(task, a)
    /\ ret' = NoEvent
    /\ UNCHANGED <<agreements, now, lock, created, confirmed, approved,
                   proposed, ops, wasPending, rejected, restVars>>

\* The notifier's channel is closed, outside requestor.rs.
CloseChannel(a) ==
    /\ Closed(task, a) # task
    /\ task' = Closed(task, a)
    /\ ret' = NoEvent
    /\ UNCHANGED <<agreements, now, lock, created, confirmed, approved,
                   proposed, ops, wasPending, rejected, restVars>>

\* ============================================== AgreementRejected callback
\* The handler bound in RequestorBroker::new: the rejected counter, then
\* unimplemented!(), which panics.  Nothing is locked, read or stored.
on_agreement_rejected(caller, a) ==
    /\ ops < MaxOps
    /\ ops' = ops + 1
    /\ rejected' = rejected + 1
    /\ ret' = Event("agreement_rejected", a, caller, "Panic", "-", 0)
    /\ UNCHANGED <<agreements, now, lock, task, created, confirmed, approved,
                   proposed, wasPending, restVars>>

\* =========================================================== specification
\* The steps of calls on the Agreements aids, created from the Proposals props.
NextOver(aids, props) ==
    \/ Tick
    \/ \E p \in props, d \in 0..1, dbOk \in BOOLEAN :
          create_agreement("req1", p, now + d, dbOk)
    \/ \E t \in Tasks, id \in Identities, a \in aids, s \in Sessions :
          StartConfirm(t, id, a, s)
    \/ \E t \in Tasks : ConfirmLock(t)
    \/ \E t \in Tasks : ConfirmSelect(t)
    \/ \E t \in Tasks, delivered \in BOOLEAN : ConfirmPropose(t, delivered)
    \/ \E t \in Tasks, dbOk \in BOOLEAN : ConfirmStore(t, dbOk)
    \/ \E c \in Callers, a \in aids : ApprovedBadCaller(c, a)
    \/ \E t \in Tasks, c \in Callers, a \in aids : StartApproved(t, c, a)
    \/ \E t \in Tasks : ApprovedLock(t)
    \/ \E t \in Tasks : ApprovedSelect(t)
    \/ \E t \in Tasks : CommitLock(t)
    \/ \E t \in Tasks : CommitSelect(t)
    \/ \E t \in Tasks, dbOk \in BOOLEAN : CommitApprove(t, dbOk)
    \/ \E t \in Tasks : CommitNotify(t)
    \/ \E t \in Tasks, a \in aids : StartWait(t, a)
    \/ \E t \in Tasks : WaitSelect(t)
    \/ \E t \in Tasks : WaitWoken(t)
    \/ \E t \in Tasks : WaitTimeout(t)

\* One Agreement, and a Proposal for each answer of create_agreement.
Next == NextOver({3}, {UnknownProposal, 1, 2, 3, 6, 7, 11})

Spec == Init /\ [][Next]_vars


\* Two Agreements side by side: the handshake of each, without the clock.
NextTwo ==
    \/ \E p \in AgreementIds : create_agreement("req1", p, now + 1, TRUE)
    \/ \E t \in Tasks, a \in AgreementIds : StartConfirm(t, "req1", a, None)
    \/ \E t \in Tasks : ConfirmLock(t)
    \/ \E t \in Tasks : ConfirmSelect(t)
    \/ \E t \in Tasks, delivered \in BOOLEAN : ConfirmPropose(t, delivered)
    \/ \E t \in Tasks, dbOk \in BOOLEAN : ConfirmStore(t, dbOk)
    \/ \E t \in Tasks, c \in Providers, a \in AgreementIds :
          StartApproved(t, c, a)
    \/ \E t \in Tasks : ApprovedLock(t)
    \/ \E t \in Tasks : ApprovedSelect(t)
    \/ \E t \in Tasks : CommitLock(t)
    \/ \E t \in Tasks : CommitSelect(t)
    \/ \E t \in Tasks, dbOk \in BOOLEAN : CommitApprove(t, dbOk)
    \/ \E t \in Tasks : CommitNotify(t)

SpecTwo == Init /\ [][NextTwo]_vars

\* Concurrent create_agreement calls on the Proposals 3, 7 and 10.
NextCreate ==
    \/ Tick
    \/ \E t \in Tasks, p \in {3, 7, 10} : StartCreate(t, "req1", p, now + 1)
    \/ \E t \in Tasks : CreateOffer(t)
    \/ \E t \in Tasks : CreateDemand(t)
    \/ \E t \in Tasks, dbOk \in BOOLEAN : CreateSave(t, dbOk)

SpecCreate == Init /\ [][NextCreate]_vars

\* One Agreement, its owner and its Provider, with the calls waiting for the
\* approval and all that can end their wait.
NextWait ==
    \/ Tick
    \/ \E d \in 0..1 : create_agreement("req1", 3, now + d, TRUE)
    \/ \E t \in Tasks : StartConfirm(t, "req1", 3, None)
    \/ \E t \in Tasks : ConfirmLock(t)
    \/ \E t \in Tasks : ConfirmSelect(t)
    \/ \E t \in Tasks : ConfirmPropose(t, TRUE)
    \/ \E t \in Tasks : ConfirmStore(t, TRUE)
    \/ \E t \in Tasks : StartApproved(t, "prov1", 3)
    \/ \E t \in Tasks : ApprovedLock(t)
    \/ \E t \in Tasks : ApprovedSelect(t)
    \/ \E t \in Tasks : CommitLock(t)
    \/ \E t \in Tasks : CommitSelect(t)
    \/ \E t \in Tasks, dbOk \in BOOLEAN : CommitApprove(t, dbOk)
    \/ \E t \in Tasks : CommitNotify(t)
    \/ \E t \in Tasks : StartWait(t, 3)
    \/ \E t \in Tasks : WaitSelect(t)
    \/ \E t \in Tasks : WaitWoken(t)
    \/ \E t \in Tasks : WaitTimeout(t)
    \/ \E t \in Tasks : WaitUnsubscribed(t)
    \/ \E t \in Tasks : WaitClosed(t)
    \/ UnsubscribeAll(3)
    \/ CloseChannel(3)
    \/ on_agreement_rejected("prov1", 3)

SpecWait == Init /\ [][NextWait]_vars

\* A call of wait_for_approval in flight is polled again: its select
\* returns, and its wait on the notifier ends with an event or, the timeout
\* being finite (f32 seconds clamped at zero), with the timeout.
WaitStep(t) ==
    \/ WaitSelect(t)
    \/ WaitWoken(t)
    \/ WaitTimeout(t)
    \/ WaitUnsubscribed(t)
    \/ WaitClosed(t)

SpecWaitFair == SpecWait /\ \A t \in Tasks : WF_vars(WaitStep(t))

\* The handshake with nothing failing: the Store answers, the Provider gets
\* the proposal and answers as the Provider of the Agreement, and no wait
\* runs out of time.
NextLive ==
    \/ Tick
    \/ \E d \in 0..1 : create_agreement("req1", 3, now + d, TRUE)
    \/ \E t \in Tasks : StartConfirm(t, "req1", 3, None)
    \/ \E t \in Tasks : ConfirmLock(t)
    \/ \E t \in Tasks : ConfirmSelect(t)
    \/ \E t \in Tasks : ConfirmPropose(t, TRUE)
    \/ \E t \in Tasks : ConfirmStore(t, TRUE)
    \/ \E t \in Tasks : StartApproved(t, "prov1", 3)
    \/ \E t \in Tasks : ApprovedLock(t)
    \/ \E t \in Tasks : ApprovedSelect(t)
    \/ \E t \in Tasks : CommitLock(t)
    \/ \E t \in Tasks : CommitSelect(t)
    \/ \E t \in Tasks : CommitApprove(t, TRUE)
    \/ \E t \in Tasks : CommitNotify(t)
    \/ \E t \in Tasks : StartWait(t, 3)
    \/ \E t \in Tasks : WaitSelect(t)
    \/ \E t \in Tasks : WaitWoken(t)

\* A call, callback or continuation in flight is polled until it ends.
LiveStep(t) ==
    \/ ConfirmLock(t)
    \/ ConfirmSelect(t)
    \/ ConfirmPropose(t, TRUE)
    \/ ConfirmStore(t, TRUE)
    \/ ApprovedLock(t)
    \/ ApprovedSelect(t)
    \/ CommitLock(t)
    \/ CommitSelect(t)
    \/ CommitApprove(t, TRUE)
    \/ CommitNotify(t)
    \/ WaitSelect(t)
    \/ WaitWoken(t)

SpecLive ==
    Init /\ [][NextLive]_vars /\ \A t \in Tasks : WF_vars(LiveStep(t))

\* The critical sections of one Agreement with everything inside them able
\* to fail: the caller not being a party, the peer not answering, the Store
\* failing, the Agreement expiring.
NextLock ==
    \/ Tick
    \/ create_agreement("req1", 3, now + 1, TRUE)
    \/ \E t \in Tasks, id \in Identities : StartConfirm(t, id, 3, None)
    \/ \E t \in Tasks : ConfirmLock(t)
    \/ \E t \in Tasks : ConfirmSelect(t)
    \/ \E t \in Tasks, delivered \in BOOLEAN : ConfirmPropose(t, delivered)
    \/ \E t \in Tasks, dbOk \in BOOLEAN : ConfirmStore(t, dbOk)
    \/ \E t \in Tasks, c \in Providers : StartApproved(t, c, 3)
    \/ \E t \in Tasks : ApprovedLock(t)
    \/ \E t \in Tasks : ApprovedSelect(t)
    \/ \E t \in Tasks : CommitLock(t)
    \/ \E t \in Tasks : CommitSelect(t)
    \/ \E t \in Tasks, dbOk \in BOOLEAN : CommitApprove(t, dbOk)
    \/ \E t \in Tasks : CommitNotify(t)

\* A call, callback or continuation in flight is polled: each peer call and
\* Store call it awaits returns, with success or with failure.
LockStep(t) ==
    \/ ConfirmLock(t)
    \/ ConfirmSelect(t)
    \/ \E delivered \in BOOLEAN : ConfirmPropose(t, delivered)
    \/ \E dbOk \in BOOLEAN : ConfirmStore(t, dbOk)
    \/ ApprovedLock(t)
    \/ ApprovedSelect(t)
    \/ CommitLock(t)
    \/ CommitSelect(t)
    \/ \E dbOk \in BOOLEAN : CommitApprove(t, dbOk)
    \/ CommitNotify(t)

SpecLock ==
    Init /\ [][NextLock]_vars /\ \A t \in Tasks : WF_vars(LockStep(t))

\* ============================================================ ProposalPump
\* The matcher sends a raw Offer-Demand match on the unbounded channel.
\* Matches are numbered in the order they are sent.
MatchesSent ==
    Len(handled) + Len(matches) + (IF pump.pc = "generate" THEN 1 ELSE 0)

SendMatch ==
    /\ senderAlive
    /\ MatchesSent < MaxMatches
    /\ matches' = Append(matches, MatchesSent + 1)
    /\ ret' = NoEvent
    /\ UNCHANGED <<agreementVars, task, ops, proposals, sent, countered,
                   rejected_by_us, senderAlive, pump, handled,
                   queryVars>>

\* The matcher drops the sending side: the channel is closed.
DropSender ==
    /\ senderAlive
    /\ senderAlive' = FALSE
    /\ ret' = NoEvent
    /\ UNCHANGED <<agreementVars, task, ops, proposals, sent, countered,
                   rejected_by_us, matches, pump, handled,
                   queryVars>>

\* proposal_receiver.recv().await returns Some(proposal).
PumpRecv ==
    /\ pump.pc = "recv"
    /\ matches # <<>>
    /\ pump' = [pc |-> "generate", match |-> Head(matches)]
    /\ matches' = Tail(matches)
    /\ ret' = NoEvent
    /\ UNCHANGED <<agreementVars, task, ops, proposals, sent, countered,
                   rejected_by_us, senderAlive, handled,
                   queryVars>>

\* The row generate_proposal stores: the initial Proposal of a chain.
InitialProposal == [prev |-> NoPrev, issuer |-> Them, state |-> "Initial"]

\* broker.generate_proposal(proposal).await: Ok stores the initial Proposal,
\* Err is logged; either way the loop goes on.
PumpGenerate_StopsOnError(ok) ==
    /\ pump.pc = "generate"
    /\ ok => Len(proposals) < MaxProposals
    /\ handled' = Append(handled, [match |-> pump.match, ok |-> ok])
    /\ proposals' = IF ok THEN Append(proposals, InitialProposal)
                    ELSE proposals
    /\ pump' = [pc |-> IF ok THEN "recv" ELSE "ended", match |-> 0]
    /\ ret' = Event("generate_proposal", pump.match, None,
                    IF ok THEN "Ok" ELSE "Err", "-",
                    IF ok THEN Len(proposals) + 1 ELSE 0)
    /\ UNCHANGED <<agreementVars, task, ops, sent, countered,
                   rejected_by_us, matches, senderAlive, queryVars>>

PumpGenerate(ok) ==
    /\ pump.pc = "generate"
    /\ ok => Len(proposals) < MaxProposals
    /\ handled' = Append(handled, [match |-> pump.match, ok |-> ok])
    /\ proposals' = IF ok THEN Append(proposals, InitialProposal)
                    ELSE proposals
    /\ pump' = [pc |-> "recv", match |-> 0]
    /\ ret' = Event("generate_proposal", pump.match, None,
                    IF ok THEN "Ok" ELSE "Err", "-",
                    IF ok THEN Len(proposals) + 1 ELSE 0)
    /\ UNCHANGED <<agreementVars, task, ops, sent, countered,
                   rejected_by_us, matches, senderAlive, queryVars>>

\* proposal_receiver.recv().await returns None: the channel is closed and
\* drained, the while let loop and the task end.
PumpEnd ==
    /\ pump.pc = "recv"
    /\ matches = <<>>
    /\ ~senderAlive
    /\ pump' = [pc |-> "ended", match |-> 0]
    /\ ret' = NoEvent
    /\ UNCHANGED <<agreementVars, task, ops, proposals, sent, countered,
                   rejected_by_us, matches, senderAlive, handled,
                   queryVars>>

\* ======================================================== counter_proposal
ProposalTerminal == {"Rejected", "Expired", "Accepted"}

\* A counter-Proposal to prev issued by this party is stored.
CounteredByUs(prev) ==
    \E q \in 1..Len(proposals) :
        proposals[q].prev = prev /\ proposals[q].issuer = Us

\* CommonBroker.counter_proposal and the Store transaction behind it.
CounterResult_SiblingsIgnored(prev, dbOk) ==
    IF prev \notin 1..Len(proposals) THEN "NotFound"
    ELSE IF proposals[prev].issuer = Us THEN "OwnProposal"
    ELSE IF proposals[prev].state \in ProposalTerminal THEN "TerminalState"
    ELSE IF ~dbOk THEN "Internal"
    ELSE "Ok"

CounterResult(prev, dbOk) ==
    IF prev \notin 1..Len(proposals) THEN "NotFound"
    ELSE IF proposals[prev].issuer = Us THEN "OwnProposal"
    ELSE IF proposals[prev].state \in ProposalTerminal THEN "TerminalState"
    ELSE IF CounteredByUs(prev) THEN "AlreadyCountered"
    ELSE IF ~dbOk THEN "Internal"
    ELSE "Ok"

StartCounter(t, id, prev) ==
    /\ ops < MaxOps
    /\ FreeSlot(t)
    /\ ops' = ops + 1
    /\ ret' = NoEvent
    /\ task' = [task EXCEPT ![t] = [Idle EXCEPT !.kind = "counter",
                   !.pc = "store", !.aid = prev, !.who = id]]
    /\ UNCHANGED <<agreementVars, restVars>>

\* self.common.counter_proposal(..).await?: the new Proposal is stored, or
\* the call fails with the error.
CounterStore(t, dbOk) ==
    /\ task[t].kind = "counter" /\ task[t].pc = "store"
    /\ LET prev == task[t].aid
           res == CounterResult(prev, dbOk)
       IN
       /\ res = "Ok" => Len(proposals) < MaxProposals
       /\ IF res = "Ok"
          THEN /\ proposals' = Append(proposals,
                     [prev |-> prev, issuer |-> Us, state |-> "Draft"])
               /\ task' = [task EXCEPT ![t].pc = "send",
                              ![t].new = Len(proposals) + 1,
                              ![t].first = (proposals[prev].prev = NoPrev)]
               /\ ret' = NoEvent
          ELSE /\ proposals' = proposals
               /\ task' = [task EXCEPT ![t] = Idle]
               /\ ret' = Event("counter_proposal", prev, task[t].who, res,
                               "-", 0)
    /\ UNCHANGED <<agreementVars, ops, sent, countered, rejected_by_us,
                   matches, senderAlive, pump, handled,
                   queryVars>>

\* The message for the new Proposal: initial_proposal when is_first.
CounterMessage(first, new) ==
    [msg |-> IF first THEN "initial_proposal" ELSE "counter_proposal",
     id |-> new]

\* self.api.initial_proposal / counter_proposal (..).await, its error mapped
\* to ProposalError::Send(prev_proposal_id, e); then the countered counter.
CounterSend_FailureCounted(t, delivered) ==
    /\ task[t].kind = "counter" /\ task[t].pc = "send"
    /\ IF delivered
       THEN /\ sent' = Append(sent, CounterMessage(task[t].first, task[t].new))
            /\ ret' = Event("counter_proposal", task[t].aid, task[t].who,
                            "Ok", "-", task[t].new)
       ELSE /\ UNCHANGED sent
            /\ ret' = Event("counter_proposal", task[t].aid, task[t].who,
                            "Send", "-", task[t].new)
    /\ countered' = countered + 1
    /\ task' = [task EXCEPT ![t] = Idle]
    /\ UNCHANGED <<agreementVars, ops, proposals, rejected_by_us, matches,
                   senderAlive, pump, handled,
                   queryVars>>

CounterSend(t, delivered) ==
    /\ task[t].kind = "counter" /\ task[t].pc = "send"
    /\ IF delivered
       THEN /\ sent' = Append(sent, CounterMessage(task[t].first, task[t].new))
            /\ countered' = countered + 1
            /\ ret' = Event("counter_proposal", task[t].aid, task[t].who,
                            "Ok", "-", task[t].new)
       ELSE /\ UNCHANGED <<sent, countered>>
            /\ ret' = Event("counter_proposal", task[t].aid, task[t].who,
                            "Send", "-", task[t].new)
    /\ task' = [task EXCEPT ![t] = Idle]
    /\ UNCHANGED <<agreementVars, ops, proposals, rejected_by_us, matches,
                   senderAlive, pump, handled,
                   queryVars>>

\* The Proposal q of this party reached the peer.
Delivered(q) == \E i \in 1..Len(sent) : sent[i].id = q

\* ProposalReceived: the Provider counters the Proposal q it was sent.
on_proposal_received(q) ==
    /\ ops < MaxOps
    /\ Len(proposals) < MaxProposals
    /\ q \in 1..Len(proposals)
    /\ proposals[q].issuer = Us
    /\ proposals[q].state \notin ProposalTerminal
    /\ Delivered(q)
    /\ \A r \in 1..Len(proposals) : proposals[r].prev # q
    /\ ops' = ops + 1
    /\ proposals' = Append(proposals,
                           [prev |-> q, issuer |-> Them, state |-> "Draft"])
    /\ ret' = Event("proposal_received", q, None, "Ok", "-",
                    Len(proposals) + 1)
    /\ UNCHANGED <<agreementVars, task, sent, countered, rejected_by_us,
                   matches, senderAlive, pump, handled,
                   queryVars>>

\* The pump with the matcher feeding it, while this party counters the
\* Proposals generated so far.
NextPump ==
    \/ SendMatch
    \/ DropSender
    \/ PumpRecv
    \/ \E ok \in BOOLEAN : PumpGenerate(ok)
    \/ PumpEnd
    \/ \E t \in Tasks, prev \in 1..MaxMatches :
          StartCounter(t, "req1", prev)
    \/ \E t \in Tasks : CounterStore(t, TRUE)
    \/ \E t \in Tasks : CounterSend(t, TRUE)

\* The pump is a spawned task of the runtime: it is polled whenever recv or
\* generate_proposal can return.
PumpStep == PumpRecv \/ (\E ok \in BOOLEAN : PumpGenerate(ok)) \/ PumpEnd

SpecPump == Init /\ [][NextPump]_vars /\ WF_vars(PumpStep)

\* ========================================================= reject_proposal
\* CommonBroker.reject_proposal and the Store transaction behind it: the
\* Proposal goes to Rejected; rejecting a Rejected Proposal again is a no-op
\* that returns the same Proposal.
RejectResult(p, dbOk) ==
    IF p \notin 1..Len(proposals) THEN "NotFound"
    ELSE IF proposals[p].issuer = Us THEN "OwnProposal"
    ELSE IF proposals[p].state \in ProposalTerminal \ {"Rejected"}
         THEN "TerminalState"
    ELSE IF ~dbOk THEN "Internal"
    ELSE "Ok"

StartReject(t, id, p) ==
    /\ ops < MaxOps
    /\ FreeSlot(t)
    /\ ops' = ops + 1
    /\ ret' = NoEvent
    /\ task' = [task EXCEPT ![t] = [Idle EXCEPT !.kind = "reject",
                   !.pc = "store", !.aid = p, !.who = id]]
    /\ UNCHANGED <<agreementVars, restVars>>

\* self.common.reject_proposal(..).await?: the transition is committed, or
\* the call fails with the error.  History: first tells that this call found
\* the Proposal not yet Rejected.
RejectStore_NotCommitted(t, dbOk) ==
    /\ task[t].kind = "reject" /\ task[t].pc = "store"
    /\ LET p == task[t].aid
           res == RejectResult(p, dbOk)
       IN
       /\ proposals' = proposals
       /\ IF res = "Ok"
          THEN /\ task' = [task EXCEPT ![t].pc = "send",
                              ![t].first = (proposals[p].state # "Rejected")]
               /\ ret' = NoEvent
          ELSE /\ task' = [task EXCEPT ![t] = Idle]
               /\ ret' = Event("reject_proposal", p, task[t].who, res,
                               "-", 0)
    /\ UNCHANGED <<agreementVars, ops, sent, countered, rejected_by_us,
                   matches, senderAlive, pump, handled,
                   queryVars>>

RejectStore(t, dbOk) ==
    /\ task[t].kind = "reject" /\ task[t].pc = "store"
    /\ LET p == task[t].aid
           res == RejectResult(p, dbOk)
       IN
       IF res = "Ok"
       THEN /\ proposals' = [proposals EXCEPT ![p].state = "Rejected"]
            /\ task' = [task EXCEPT ![t].pc = "send",
                           ![t].first = (proposals[p].state # "Rejected")]
            /\ ret' = NoEvent
       ELSE /\ proposals' = proposals
            /\ task' = [task EXCEPT ![t] = Idle]
            /\ ret' = Event("reject_proposal", p, task[t].who, res, "-", 0)
    /\ UNCHANGED <<agreementVars, ops, sent, countered, rejected_by_us,
                   matches, senderAlive, pump, handled,
                   queryVars>>

\* self.api.reject_proposal(id.identity, &proposal, reason).await?, then the
\* rejected.by-us counter.
RejectSend(t, delivered) ==
    /\ task[t].kind = "reject" /\ task[t].pc = "send"
    /\ IF delivered
       THEN /\ sent' = Append(sent, [msg |-> "reject_proposal",
                                     id |-> task[t].aid])
            /\ rejected_by_us' = rejected_by_us + 1
            /\ ret' = Event("reject_proposal", task[t].aid, task[t].who,
                            "Ok", "-", 0)
       ELSE /\ UNCHANGED <<sent, rejected_by_us>>
            /\ ret' = Event("reject_proposal", task[t].aid, task[t].who,
                            "Send", "-", 0)
    /\ task' = [task EXCEPT ![t] = Idle]
    /\ UNCHANGED <<agreementVars, ops, proposals, countered, matches,
                   senderAlive, pump, handled,
                   queryVars>>

\* Initial Proposals of the pump, rejected by this party.
NextReject ==
    \/ SendMatch
    \/ PumpRecv
    \/ PumpGenerate(TRUE)
    \/ \E t \in Tasks, p \in 1..MaxMatches : StartReject(t, "req1", p)
    \/ \E t \in Tasks, dbOk \in BOOLEAN : RejectStore(t, dbOk)
    \/ \E t \in Tasks, delivered \in BOOLEAN : RejectSend(t, delivered)

SpecReject == Init /\ [][NextReject]_vars

\* The negotiation of Proposals: the pump generating initial Proposals, this
\* party countering them, the Provider countering back.
NextCounter ==
    \/ SendMatch
    \/ PumpRecv
    \/ PumpGenerate(TRUE)
    \/ \E t \in Tasks, prev \in 1..MaxProposals :
          StartCounter(t, "req1", prev)
    \/ \E t \in Tasks, dbOk \in BOOLEAN : CounterStore(t, dbOk)
    \/ \E t \in Tasks, delivered \in BOOLEAN : CounterSend(t, delivered)
    \/ \E q \in 1..MaxProposals : on_proposal_received(q)

SpecCounter == Init /\ [][NextCounter]_vars

\* Another writer of the Store (cancel, terminate, a rejection or expiry
\* recorded by another component) commits a transition of the Agreement that
\* validate_transition allows.
StoreTransition(a, to) ==
    /\ Agr(a) # NoAgreement
    /\ validate_transition(Agr(a).state, to)
    /\ agreements' = Put(a, [Agr(a) EXCEPT !.state = to])
    /\ ret' = Event("store_transition", a, None, to, Agr(a).state, 0)
    /\ UNCHANGED <<now, lock, task, created, confirmed, approved, proposed,
                   ops, wasPending, rejected, restVars>>

\* One Agreement going through the handshake while other writers of the
\* Store end it.
NextStates ==
    \/ Tick
    \/ create_agreement("req1", 3, now + 1, TRUE)
    \/ \E t \in Tasks : StartConfirm(t, "req1", 3, None)
    \/ \E t \in Tasks : ConfirmLock(t)
    \/ \E t \in Tasks : ConfirmSelect(t)
    \/ \E t \in Tasks : ConfirmPropose(t, TRUE)
    \/ \E t \in Tasks : ConfirmStore(t, TRUE)
    \/ \E t \in Tasks : StartApproved(t, "prov1", 3)
    \/ \E t \in Tasks : ApprovedLock(t)
    \/ \E t \in Tasks : ApprovedSelect(t)
    \/ \E t \in Tasks : CommitLock(t)
    \/ \E t \in Tasks : CommitSelect(t)
    \/ \E t \in Tasks : CommitApprove(t, TRUE)
    \/ \E t \in Tasks : CommitNotify(t)
    \/ \E t \in Tasks : StartWait(t, 3)
    \/ \E t \in Tasks : WaitSelect(t)
    \/ \E t \in Tasks : WaitWoken(t)
    \/ \E t \in Tasks : WaitTimeout(t)
    \/ \E to \in {"Rejected", "Cancelled", "Terminated", "Expired"} :
          StoreTransition(3, to)

SpecStates == Init /\ [][NextStates]_vars

\* One Agreement confirmed with or without an AppSession, its approval
\* committed while calls wait for it and another writer may terminate it.
NextNotify ==
    \/ Tick
    \/ create_agreement("req1", 3, now + 1, TRUE)
    \/ \E t \in Tasks, s \in Sessions : StartConfirm(t, "req1", 3, s)
    \/ \E t \in Tasks : ConfirmLock(t)
    \/ \E t \in Tasks : ConfirmSelect(t)
    \/ \E t \in Tasks : ConfirmPropose(t, TRUE)
    \/ \E t \in Tasks : ConfirmStore(t, TRUE)
    \/ \E t \in Tasks : StartApproved(t, "prov1", 3)
    \/ \E t \in Tasks : ApprovedLock(t)
    \/ \E t \in Tasks : ApprovedSelect(t)
    \/ \E t \in Tasks : CommitLock(t)
    \/ \E t \in Tasks : CommitSelect(t)
    \/ \E t \in Tasks, dbOk \in BOOLEAN : CommitApprove(t, dbOk)
    \/ \E t \in Tasks : CommitNotify(t)
    \/ \E t \in Tasks : StartWait(t, 3)
    \/ \E t \in Tasks : WaitSelect(t)
    \/ \E t \in Tasks : WaitWoken(t)
    \/ \E t \in Tasks : WaitTimeout(t)
    \/ StoreTransition(3, "Terminated")

SpecNotify == Init /\ [][NextNotify]_vars

\* ============================================================ query_events
\* What common.query_events can return: up to MaxEvents events in the order
\* of their ids, each with whether into_client_requestor_event succeeds on
\* it.
EventSeqs ==
    UNION {{[i \in 1..n |-> [id |-> i, ok |-> f[i]]] :
               f \in [1..n -> BOOLEAN]} : n \in 0..MaxEvents}

\* event.into_client_requestor_event(db) of a convertible event.
ClientEvent(e) == [event_type |-> "ProposalEvent", proposal |-> e.id]

\* stream::iter(events).then(convert).filter_map(ok).collect(): the events
\* are converted one after another, a failed conversion is logged and left
\* out.
RECURSIVE ClientEvents(_)
ClientEvents(events) ==
    IF events = <<>> THEN <<>>
    ELSE IF Head(events).ok
    THEN <<ClientEvent(Head(events))>> \o ClientEvents(Tail(events))
    ELSE ClientEvents(Tail(events))

\* query_events(demand_id, timeout, max_events): a failure of
\* common.query_events is returned; otherwise the converted events are
\* counted and returned.
query_events_FailsOnBadEvent(events, commonOk) ==
    /\ ops < MaxOps
    /\ ops' = ops + 1
    /\ ~commonOk => events = <<>>
    /\ LET good == commonOk /\ \A i \in 1..Len(events) : events[i].ok
           out == IF good THEN ClientEvents(events) ELSE <<>>
           res == IF good THEN "Ok" ELSE "Err"
       IN
       /\ query' = [common |-> commonOk, events |-> events, res |-> res,
                    out |-> out]
       /\ queried' = queried + Len(out)
       /\ ret' = Event("query_events", 0, None, res, "-", Len(out))
    /\ UNCHANGED <<agreementVars, task, proposals, sent, countered,
                   rejected_by_us, matches, senderAlive, pump, handled>>

query_events(events, commonOk) ==
    /\ ops < MaxOps
    /\ ops' = ops + 1
    /\ ~commonOk => events = <<>>
    /\ LET out == IF commonOk THEN ClientEvents(events) ELSE <<>>
           res == IF commonOk THEN "Ok" ELSE "Err"
       IN
       /\ query' = [common |-> commonOk, events |-> events, res |-> res,
                    out |-> out]
       /\ queried' = queried + Len(out)
       /\ ret' = Event("query_events", 0, None, res, "-", Len(out))
    /\ UNCHANGED <<agreementVars, task, proposals, sent, countered,
                   rejected_by_us, matches, senderAlive, pump, handled>>

\* Queries of the events of a Demand, one after another.
NextQuery ==
    \E events \in EventSeqs, commonOk \in BOOLEAN :
        query_events(events, commonOk)

SpecQuery == Init /\ [][NextQuery]_vars

\* ================================================================== claims
\* The task t took a step.
Acted(t) == task'[t] # task[t]

\* The task t is inside a section guarded by agreement_lock.lock(id).
InCritical(t) ==
    /\ task[t].kind \in {"confirm", "approved", "commit"}
    /\ task[t].pc \in {"select", "propose", "confirm", "approve"}

\* C1: an Agreement is stored as Approved only if it was stored as Pending
\* earlier in the run, and the step that makes it Approved finds it Pending
\* (never Proposal).
C1_ApprovedOnlyAfterPending ==
    [][\A a \in ProposalIds :
          AgrNext(a).state = "Approved"
          => /\ a \in AgreementIds
             /\ wasPending[a]
             /\ Agr(a).state \in {"Pending", "Approved"}]_vars

C1_Witness ==
    \E a \in AgreementIds : Agr(a).state = "Approved" /\ approved = 1


\* C2 as claimed: a callback of the right Provider that arrived inside the
\* critical section of a confirm_agreement (propose_agreement sent,
\* dao.confirm then committed) waits for the lock, reads Pending, is accepted
\* and its commit_agreement leaves the Agreement Approved; no invalid
\* transition is reported.
C2_RacedCallbackAlwaysApproves ==
    /\ \A t \in Tasks :
          task[t].kind = "approved" /\ task[t].raced
          => /\ task[t].pc = "lock" /\ lock[task[t].aid] # 0
                => ~ENABLED ApprovedLock(t)
             /\ task[t].pc = "select"
                => Agr(task[t].aid).state = "Pending"
    /\ ret.op = "agreement_approved" /\ ret.arg = 1
         /\ ret.who = Agr(ret.aid).provider
       => ret.res = "Ok"
    /\ ret.op = "commit_agreement" /\ ret.arg = 1
       => ret.res = "Ok" /\ Agr(ret.aid).state = "Approved"

\* C2 (amended): such a callback cannot take the lock while it is held and
\* never reads Proposal.  It is accepted when valid_to has not passed and no
\* earlier callback has led to Approved; its commit_agreement leaves the
\* Agreement Approved when valid_to has not passed and the Store's approve
\* did not fail internally.
C2_RacedCallbackSeesPending ==
    /\ \A t \in Tasks :
          task[t].kind = "approved" /\ task[t].raced
          => /\ task[t].pc = "lock" /\ lock[task[t].aid] # 0
                => ~ENABLED ApprovedLock(t)
             /\ task[t].pc = "select"
                => Agr(task[t].aid).state # "Proposal"
    /\ ret.op = "agreement_approved" /\ ret.arg = 1
         /\ ret.who = Agr(ret.aid).provider
         /\ now < Agr(ret.aid).valid_to
         /\ Agr(ret.aid).approved_ts = -1
       => ret.res = "Ok"
    /\ ret.op = "commit_agreement" /\ ret.arg = 1
         /\ now < Agr(ret.aid).valid_to
         /\ ret.res # "InternalError"
       => Agr(ret.aid).state = "Approved"

C2_Witness ==
    /\ ret.op = "commit_agreement" /\ ret.arg = 1 /\ ret.res = "Ok"
    /\ Agr(ret.aid).state = "Approved"

\* C3: per AgreementId at most one task is inside a section guarded by the
\* lock of that id, the holder being the task the lock names; a task waiting
\* for the lock of an id is granted it as soon as no task is inside a
\* section of that id, whatever tasks hold the locks of other ids.
C3_LockIsPerId ==
    /\ \A a \in AgreementIds :
          Cardinality({t \in Tasks : InCritical(t) /\ task[t].aid = a}) <= 1
    /\ \A t \in Tasks : InCritical(t) => lock[task[t].aid] = t
    /\ \A t \in Tasks :
          /\ task[t].pc = "lock"
          /\ \A u \in Tasks : InCritical(u) => task[u].aid # task[t].aid
          => ENABLED (ConfirmLock(t) \/ ApprovedLock(t) \/ CommitLock(t))

C3_Witness ==
    \E t, u \in Tasks :
        /\ InCritical(t) /\ InCritical(u)
        /\ task[t].aid # task[u].aid
        /\ \E w \in Tasks : w = t \/ task[w].kind # "idle"

\* C4 as claimed: every change of a stored Agreement state is made by the
\* task that holds the AgreementLock of that Agreement.
C4_EveryTransitionUnderLock ==
    [][\A a \in AgreementIds :
          Agr(a) # NoAgreement
            /\ AgrNext(a).state # Agr(a).state
          => lock[a] # 0 /\ Acted(lock[a])]_vars

\* C4 (amended): a change of a stored Agreement state is made by the task
\* holding the lock of that Agreement, except that the select of
\* wait_for_approval, which takes no lock, may store Expired.
C4_TransitionsUnderLockButWait ==
    [][\A a \in AgreementIds :
          Agr(a) # NoAgreement
            /\ AgrNext(a).state # Agr(a).state
          => \/ lock[a] # 0 /\ Acted(lock[a])
             \/ /\ AgrNext(a).state = "Expired"
                /\ \E t \in Tasks :
                      /\ task[t].kind = "wait" /\ task[t].aid = a
                      /\ Acted(t)]_vars

C4_Witness ==
    \E a \in AgreementIds :
        /\ Agr(a).state = "Expired"
        /\ wasPending[a]
        /\ ret.op = "wait_for_approval" /\ ret.res = "Expired"


\* C5: when propose_agreement fails inside confirm_agreement, the call
\* returns the send error at once (dao.confirm is not called), the stored
\* row is untouched: not Pending, still Proposal while valid_to has not
\* passed, app_session_id as before; agreements.confirmed is not incremented
\* and the lock is released.
C5_FailedProposeChangesNothing ==
    [][\A t \in Tasks :
          /\ task[t].kind = "confirm" /\ task[t].pc = "propose"
          /\ Acted(t)
          /\ proposed' = proposed
          => /\ ret' = Event("confirm_agreement", task[t].aid, task[t].who,
                             "Send", "-", 0)
             /\ task'[t] = Idle
             /\ agreements' = agreements
             /\ AgrNext(task[t].aid).state # "Pending"
             /\ now < Agr(task[t].aid).valid_to
                => AgrNext(task[t].aid).state = "Proposal"
             /\ AgrNext(task[t].aid).session = None
             /\ confirmed' = confirmed
             /\ lock'[task[t].aid] = 0]_vars

C5_Witness ==
    /\ ret.op = "confirm_agreement" /\ ret.res = "Send"
    /\ Agr(ret.aid).state = "Proposal"
    /\ lock[ret.aid] = 0 /\ confirmed = 0

\* C6 as claimed: an AgreementApproved callback of a node that is not the
\* Provider of an existing Agreement fails NotFound, spawns no
\* commit_agreement, wakes nobody and leaves the stored row as it was.
C6_WrongCallerChangesNothing ==
    [][\A t \in Tasks :
          /\ task[t].kind = "approved" /\ task[t].pc = "select"
          /\ Acted(t)
          /\ Agr(task[t].aid) # NoAgreement
          /\ Agr(task[t].aid).provider # task[t].who
          => /\ ret'.res = "NotFound"
             /\ task' = [task EXCEPT ![t] = Idle]
             /\ agreements' = agreements]_vars

\* C6 (amended): such a callback fails NotFound, spawns no commit_agreement
\* and wakes nobody; the stored row is unchanged, except that its select
\* stores Expired for a Proposal or Pending Agreement whose valid_to passed.
C6_WrongCallerOnlyExpires ==
    [][\A t \in Tasks :
          /\ task[t].kind = "approved" /\ task[t].pc = "select"
          /\ Acted(t)
          /\ Agr(task[t].aid) # NoAgreement
          /\ Agr(task[t].aid).provider # task[t].who
          => /\ ret'.res = "NotFound"
             /\ task' = [task EXCEPT ![t] = Idle]
             /\ LET old == Agr(task[t].aid) IN
                AgrNext(task[t].aid) =
                   IF old.state \in {"Proposal", "Pending"}
                        /\ old.valid_to <= now
                   THEN [old EXCEPT !.state = "Expired"]
                   ELSE old]_vars

C6_Witness ==
    /\ ret.op = "agreement_approved" /\ ret.res = "NotFound"
    /\ Agr(ret.aid).state = "Pending"
    /\ ret.who \in Providers \ {Agr(ret.aid).provider}

\* C7: a caller that is not the Provider of the Agreement is answered
\* NotFound whether the Agreement exists or not and whatever its state and
\* validity; every error a callback returns once the caller was parsed is
\* NotFound, Expired, InvalidState or InternalError.
C7_NonPartyLearnsNothing ==
    ret.op = "agreement_approved" /\ ret.who # BadCaller
    => /\ ret.res \in {"Ok", "NotFound", "Expired", "InvalidState",
                       "InternalError"}
       /\ Agr(ret.aid) = NoAgreement \/ Agr(ret.aid).provider # ret.who
          => ret.res = "NotFound"

C7_Witness ==
    /\ ret.op = "agreement_approved" /\ ret.res = "NotFound"
    /\ Agr(ret.aid).state \in {"Proposal", "Expired", "Approved"}
    /\ ret.who \in Providers \ {Agr(ret.aid).provider}

\* C8: confirm_agreement by the owner on a Proposal-state Agreement whose
\* valid_to <= now fails InvalidTransition{from Expired, to Pending}: the
\* select stores Expired, nothing is sent to the peer, dao.confirm is not
\* called, the lock is released; and an Expired Agreement stays Expired.
C8_ExpiredCannotBeConfirmed ==
    [][/\ \A t \in Tasks :
             /\ task[t].kind = "confirm" /\ task[t].pc = "select"
             /\ Acted(t)
             /\ Agr(task[t].aid).state = "Proposal"
             /\ Agr(task[t].aid).requestor = task[t].who
             /\ Agr(task[t].aid).valid_to <= now
             => /\ ret' = Event("confirm_agreement", task[t].aid,
                                task[t].who, "InvalidTransition",
                                "Expired", 0)
                /\ AgrNext(task[t].aid).state = "Expired"
                /\ proposed' = proposed
                /\ confirmed' = confirmed
                /\ task'[t] = Idle
                /\ lock'[task[t].aid] = 0
       /\ \A a \in AgreementIds :
             Agr(a).state = "Expired" => AgrNext(a).state = "Expired"]_vars

C8_Witness ==
    /\ ret.op = "confirm_agreement" /\ ret.res = "InvalidTransition"
    /\ ret.from = "Expired"
    /\ Agr(ret.aid).state = "Expired" /\ proposed[ret.aid] = 0

\* The row the select of task t reads, NoAgreement when it returns None.
SelectReads(t) ==
    IF task[t].pc = "select"
         /\ (task[t].kind = "confirm"
                => Agr(task[t].aid).requestor = task[t].who)
    THEN Agr(task[t].aid)
    ELSE NoAgreement

\* C9 as claimed: every select at or after valid_to returns the Agreement
\* as Expired, whatever its state was.
C9_ExpiredOnEveryRead ==
    [][\A t \in Tasks :
          /\ Acted(t)
          /\ SelectReads(t) # NoAgreement
          /\ SelectReads(t).valid_to <= now
          => AgrNext(task[t].aid).state = "Expired"]_vars

\* C9 (amended): a select at or after valid_to returns (and stores) Expired
\* when the stored state is Proposal, Pending or Expired; an Agreement in
\* any other state, Approved included, is returned as it is stored.
C9_ExpiredOnReadIfNotSettled ==
    [][\A t \in Tasks :
          /\ Acted(t)
          /\ SelectReads(t) # NoAgreement
          /\ SelectReads(t).valid_to <= now
          => IF SelectReads(t).state \in {"Proposal", "Pending", "Expired"}
             THEN AgrNext(task[t].aid).state = "Expired"
             ELSE AgrNext(task[t].aid) = SelectReads(t)]_vars

C9_Witness ==
    /\ ret.op = "wait_for_approval" /\ ret.res = "Approved"
    /\ Agr(ret.aid).valid_to <= now

\* C10: a successful create_agreement was called on a Proposal issued by
\* Them that has a prev_id; it stores a new Agreement with that Proposal as
\* offer, its prev as demand, the given valid_to, owner Requestor and state
\* Proposal, and increments agreements.created by one; nothing else
\* increments that counter.
C10_CreatedFromTheirCounterProposal ==
    [][/\ ret'.op = "create_agreement" /\ ret'.res = "Ok"
          => /\ ProposalIssuer(ret'.aid) = Them
             /\ ProposalPrev(ret'.aid) # NoPrev
             /\ Agr(ret'.aid) = NoAgreement
             /\ AgrNext(ret'.aid).offer = ret'.aid
             /\ AgrNext(ret'.aid).demand = ProposalPrev(ret'.aid)
             /\ AgrNext(ret'.aid).valid_to = ret'.arg
             /\ AgrNext(ret'.aid).owner = "Requestor"
             /\ AgrNext(ret'.aid).state = "Proposal"
             /\ created' = created + 1
       /\ created' # created
          => ret'.op = "create_agreement" /\ ret'.res = "Ok"]_vars

C10_Witness ==
    /\ ret.op = "create_agreement" /\ ret.res = "Ok"
    /\ Agr(ret.aid).state = "Proposal" /\ created = 1


\* C11 as claimed: create_agreement on an existing Proposal without prev_id
\* fails NoNegotiations whoever issued it; it fails OwnProposal only for a
\* Proposal with a prev_id whose issuer is not Them; nothing is stored.
C11_NoNegotiationsForEveryIssuer ==
    [][ret'.op = "create_agreement" /\ ret'.aid \in ProposalIds
       => /\ ProposalPrev(ret'.aid) = NoPrev
             => ret'.res = "NoNegotiations"
          /\ ret'.res = "OwnProposal"
             => /\ ProposalPrev(ret'.aid) # NoPrev
                /\ ProposalIssuer(ret'.aid) # Them
          /\ ret'.res \in {"NoNegotiations", "OwnProposal"}
             => agreements' = agreements /\ created' = created]_vars

\* C11 (amended): create_agreement on an existing Proposal whose issuer is
\* not Them fails OwnProposal, with or without a prev_id; it fails
\* NoNegotiations exactly when the issuer is Them and there is no prev_id;
\* nothing is stored in either case.
C11_OwnProposalCheckedFirst ==
    [][ret'.op = "create_agreement" /\ ret'.aid \in ProposalIds
       => /\ ret'.res = "OwnProposal" <=> ProposalIssuer(ret'.aid) # Them
          /\ ret'.res = "NoNegotiations"
             <=> /\ ProposalIssuer(ret'.aid) = Them
                 /\ ProposalPrev(ret'.aid) = NoPrev
          /\ ret'.res \in {"NoNegotiations", "OwnProposal"}
             => agreements' = agreements /\ created' = created]_vars

C11_Witness ==
    /\ ret.op = "create_agreement" /\ ret.res = "OwnProposal"
    /\ ProposalPrev(ret.aid) = NoPrev
    /\ agreements = <<>>


\* C12: a save of create_agreement(p) succeeds only when no Agreement
\* promotes p, and then stores one row and counts it once; once an Agreement
\* promotes p every create_agreement(p), started before or after, fails
\* AlreadyExists and stores nothing.  Of concurrent calls the first to save
\* succeeds (unless the database fails, which is Save and stores nothing,
\* leaving the next one to succeed), so exactly one Agreement per p exists.
C12_OneAgreementPerProposal ==
    [][/\ \A t \in Tasks :
             task[t].kind = "create" /\ task[t].pc = "save" /\ Acted(t)
             => /\ ret'.op = "create_agreement" /\ ret'.aid = task[t].aid
                /\ Agr(task[t].aid) # NoAgreement
                   => /\ ret'.res = "AlreadyExists"
                      /\ agreements' = agreements
                      /\ created' = created
                /\ Agr(task[t].aid) = NoAgreement
                   => ret'.res \in {"Ok", "Save"}
                /\ ret'.res = "Ok"
                   => /\ Agr(task[t].aid) = NoAgreement
                      /\ AgrNext(task[t].aid).offer = task[t].aid
                      /\ created' = created + 1
                /\ ret'.res # "Ok" => agreements' = agreements
       /\ created' = Cardinality(DOMAIN agreements')]_vars

C12_Witness ==
    /\ ret.op = "create_agreement" /\ ret.res = "AlreadyExists"
    /\ created = 1
    /\ \E t \in Tasks :
          /\ task[t].kind = "create" /\ task[t].pc = "save"
          /\ task[t].aid = ret.aid


\* C13: confirm_agreement by an identity that does not own the Agreement, or
\* on an id the Store does not hold, fails NotFound at its select: nothing
\* is sent to the peer, no row changes, the counter stays and the lock is
\* released.
C13_ConfirmOfStrangerNotFound ==
    [][\A t \in Tasks :
          /\ task[t].kind = "confirm" /\ task[t].pc = "select"
          /\ Acted(t)
          /\ \/ Agr(task[t].aid) = NoAgreement
             \/ Agr(task[t].aid).requestor # task[t].who
          => /\ ret' = Event("confirm_agreement", task[t].aid, task[t].who,
                             "NotFound", "-", 0)
             /\ agreements' = agreements
             /\ proposed' = proposed
             /\ confirmed' = confirmed
             /\ task'[t] = Idle
             /\ lock'[task[t].aid] = 0]_vars

C13_Witness ==
    /\ ret.op = "confirm_agreement" /\ ret.res = "NotFound"
    /\ Agr(ret.aid).state = "Proposal"
    /\ ret.who \in Identities \ {Agr(ret.aid).requestor}
    /\ proposed[ret.aid] = 0


\* The task t itself took a step (a notification put into its inbox is a
\* step of the notifying task).
Stepped(t) == task'[t].pc # task[t].pc \/ task'[t].kind # task[t].kind

\* The result wait_for_approval returns for a row in state st, "-" when it
\* goes on to wait on the notifier.
C14_Expected(st) ==
    CASE st = "Approved" -> "Approved"
      [] st = "Rejected" -> "Rejected"
      [] st = "Cancelled" -> "Cancelled"
      [] st = "Expired" -> "Expired"
      [] st = "Proposal" -> "NotConfirmed"
      [] st = "Terminated" -> "Terminated"
      [] st = "Absent" -> "NotFound"
      [] st = "Pending" -> "-"

\* C14: wait_for_approval answers by the state its select returns: Approved,
\* Rejected, Cancelled as results, Expired, NotConfirmed (Proposal),
\* Terminated and NotFound (absent) as errors, each without waiting on the
\* notifier; only Pending makes it wait.
C14_WaitAnswersByState ==
    [][/\ \A t \in Tasks :
             task[t].kind = "wait" /\ task[t].pc = "select" /\ Stepped(t)
             => LET st == AgrNext(task[t].aid).state IN
                IF st = "Pending"
                THEN ret' = NoEvent /\ task'[t].pc = "wait"
                ELSE /\ ret' = Event("wait_for_approval", task[t].aid, None,
                                     C14_Expected(st), "-", 0)
                     /\ task'[t] = Idle
       /\ \A st \in {"Pending", "Approved", "Rejected", "Cancelled",
                     "Expired", "Proposal", "Terminated"} :
             WaitAnswer([NoAgreement EXCEPT !.state = st])
                = C14_Expected(st)]_vars

C14_Witness ==
    /\ ret.op = "wait_for_approval" /\ ret.res = "NotConfirmed"
    /\ Agr(ret.aid).state = "Proposal"
    /\ \A t \in Tasks : task[t].kind # "wait"


Settled == {"Approved", "Rejected", "Cancelled", "Expired", "Terminated"}

\* C15 as claimed: a wait_for_approval call that waits on the notifier while
\* the Agreement is Approved, Rejected, Cancelled, Expired or Terminated is
\* woken by a notification and does not run into its own timeout.
C15_SettledStateWakesWaiters ==
    [][\A t \in Tasks :
          /\ task[t].kind = "wait" /\ task[t].pc = "wait" /\ Stepped(t)
          /\ Agr(task[t].aid).state \in Settled
          /\ task[t].sub \in {"empty", "notified"}
          => /\ task[t].sub = "notified"
             /\ ret'.res # "Timeout"]_vars

\* C15 (amended): only commit_agreement notifies.  Its notify_agreement,
\* which follows a successful approve, puts a notification into the inbox of
\* every wait_for_approval call subscribed for the Agreement; a call with a
\* notification in its inbox is woken, not timed out.  A step that stores
\* Expired (the lazy transition of select) and a commit_agreement that ends
\* without approving leave every inbox as it was, so the calls waiting then
\* end by their own timeout.
C15_OnlyApprovalWakesWaiters ==
    [][/\ \A t \in Tasks :
             /\ task[t].kind = "wait"
             /\ task[t].sub = "empty"
             /\ ret'.op = "commit_agreement" /\ ret'.res = "Ok"
             /\ ret'.aid = task[t].aid
             => task'[t].sub = "notified"
       /\ \A t \in Tasks :
             /\ task[t].kind = "wait" /\ task[t].pc = "wait" /\ Stepped(t)
             /\ task[t].sub = "notified"
             => task'[t].pc = "select" /\ ret' = NoEvent
       /\ \A t \in Tasks :
             /\ task[t].kind = "wait" /\ task'[t].kind = "wait"
             /\ \/ /\ AgrNext(task[t].aid).state = "Expired"
                   /\ Agr(task[t].aid).state # "Expired"
                \/ ret'.op = "commit_agreement" /\ ret'.res # "Ok"
             => task'[t] = task[t]
       /\ \A t \in Tasks :
             /\ task[t].kind = "wait" /\ task[t].pc = "wait" /\ Stepped(t)
             /\ task[t].sub = "empty"
             => ret'.res = "Timeout"]_vars

C15_Witness ==
    /\ ret.op = "wait_for_approval" /\ ret.res = "Timeout"
    /\ Agr(ret.aid).state = "Expired"
    /\ wasPending[ret.aid]


\* C16 as claimed: a wait_for_approval call, subscribed before its first
\* read, does not fail with Timeout while the stored state is Approved.
C16_NoTimeoutWhileApproved ==
    [][\A t \in Tasks :
          /\ task[t].kind = "wait" /\ Stepped(t)
          /\ Agr(task[t].aid).state = "Approved"
          => ret'.res # "Timeout"]_vars

\* C16 (amended): a wait_for_approval call holds its subscription from
\* before its first read; the notify_agreement of a commit_agreement reaches
\* every subscribed call, whether it is about to read or already waiting;
\* once notify_agreement has run a call neither times out nor waits again:
\* its read returns Approved.  A Timeout with the state Approved is left only
\* between the Store's approve and the notify_agreement that follows it.
C16_NotificationNeverMissed ==
    [][/\ \A t \in Tasks : task'[t].kind = "wait" => task'[t].sub # "none"
       /\ \A t \in Tasks :
             /\ task[t].kind = "wait" /\ task[t].sub = "empty"
             /\ ret'.op = "commit_agreement" /\ ret'.res = "Ok"
             => task'[t].sub = "notified"
       /\ \A t \in Tasks :
             /\ task[t].kind = "wait" /\ Stepped(t)
             /\ approved >= 1
             /\ task[t].sub \in {"empty", "notified"}
             => /\ ret'.res # "Timeout"
                /\ task[t].pc = "select" => ret'.res = "Approved"
                /\ task[t].pc = "wait" => task'[t].pc = "select"
       /\ \A t \in Tasks :
             /\ task[t].kind = "wait" /\ Stepped(t)
             /\ ret'.res = "Timeout"
             /\ Agr(task[t].aid).state = "Approved"
             => \E u \in Tasks :
                   task[u].kind = "commit" /\ task[u].pc = "notify"]_vars

C16_Witness ==
    \E t \in Tasks :
        /\ task[t].kind = "wait" /\ task[t].pc = "select"
        /\ task[t].sub = "notified"
        /\ Agr(task[t].aid).state = "Approved" /\ approved = 1


\* C17: unsubscribe_all reaches every wait_for_approval call waiting with an
\* empty inbox; each call it reached returns Ok(Cancelled), not Timeout and
\* not Internal, and none of them stays blocked: the calls of a run being
\* finitely many, from some point on no call is left waiting unsubscribed.
C17_UnsubscribedWaitersReturnCancelled ==
    /\ [][/\ (\E t \in Tasks : /\ task'[t].sub = "unsubscribed"
                               /\ task[t].sub # "unsubscribed")
             => \A u \in Tasks :
                   task[u].kind = "wait" /\ task[u].sub = "empty"
                   => task'[u].sub = "unsubscribed"
          /\ \A t \in Tasks :
                /\ task[t].kind = "wait" /\ task[t].pc = "wait"
                /\ task[t].sub = "unsubscribed"
                /\ Stepped(t)
                => /\ ret' = Event("wait_for_approval", task[t].aid, None,
                                   "Cancelled", "Unsubscribed", 0)
                   /\ task'[t] = Idle]_vars
    /\ <>[](\A t \in Tasks :
               ~(task[t].pc = "wait" /\ task[t].sub = "unsubscribed"))

C17_Witness ==
    /\ \A t \in Tasks :
          /\ task[t].kind = "wait" /\ task[t].pc = "wait"
          /\ task[t].sub = "unsubscribed"
    /\ Agr(3).state = "Pending"

\* C18: every wait_for_approval call returns: the calls of a run being
\* finitely many, from some point on none is in flight.  Its read returns at once
\* unless the state is Pending; its wait ends by what the inbox holds: a
\* notification (woken, read again), Unsubscribed (Ok(Cancelled)), a closed
\* channel (Internal) or, with nothing in it, Timeout.
C18_WaitTerminates ==
    /\ [][\A t \in Tasks :
             task[t].kind = "wait" /\ task[t].pc = "wait" /\ Stepped(t)
             => CASE task[t].sub = "notified" ->
                       task'[t].pc = "select" /\ ret' = NoEvent
                  [] task[t].sub = "unsubscribed" ->
                       task'[t] = Idle /\ ret'.res = "Cancelled"
                  [] task[t].sub = "closed" ->
                       task'[t] = Idle /\ ret'.res = "Internal"
                  [] task[t].sub = "empty" ->
                       /\ task'[t] = Idle /\ ret'.res = "Timeout"
                       /\ ret'.op = "wait_for_approval"]_vars
    /\ <>[](\A t \in Tasks : task[t].kind # "wait")

C18_Witness ==
    /\ ret.op = "wait_for_approval" /\ ret.res = "Timeout"
    /\ Agr(ret.aid).state = "Pending"
    /\ \A t \in Tasks : task[t] = Idle


\* The AgreementApproved of the Provider is being handled for a Pending
\* Agreement whose valid_to the clock does not pass.
C19_Delivered ==
    /\ Agr(3).state = "Pending"
    /\ Agr(3).valid_to > MaxTime
    /\ \E t \in Tasks : task[t].kind \in {"approved", "commit"}

C19_WaitReturnsApproved(t) ==
    /\ task[t].kind = "wait" /\ task'[t] = Idle
    /\ ret'.op = "wait_for_approval" /\ ret'.res = "Approved"

\* From some point on the delivered approval is stored, counted, and no
\* wait_for_approval for the Approved Agreement is left in flight.
C19_HappyEnd ==
    <>[](/\ ~C19_Delivered
         /\ Agr(3).state = "Approved"
            => approved = 1 /\ \A t \in Tasks : task[t].kind # "wait")

C20_RejectionStored ==
    [][(/\ ret'.op = "agreement_rejected" /\ ops' = ops + 1
        /\ Agr(ret'.aid).state = "Pending")
       => /\ ret'.res = "Ok"
          /\ AgrNext(ret'.aid).state = "Rejected"]_vars


Absorbing == {"Rejected", "Cancelled", "Expired", "Terminated"}

\* C21: a stored state Rejected, Cancelled, Expired or Terminated is never
\* changed again, and a stored Approved changes only to Terminated or
\* Expired, whatever confirm_agreement, the AgreementApproved callback,
\* commit_agreement, wait_for_approval and their selects do.
C21_TerminalStatesAbsorbing ==
    [][\A a \in AgreementIds :
          /\ Agr(a).state \in Absorbing => AgrNext(a).state = Agr(a).state
          /\ Agr(a).state = "Approved"
             => AgrNext(a).state \in {"Approved", "Terminated", "Expired"}]_vars

C21_Witness ==
    /\ Agr(3).state = "Cancelled"
    /\ ret.op = "commit_agreement" /\ ret.res = "InvalidState"
    /\ ret.from = "Cancelled"


\* The counter-Proposals to prev this party has stored.
OurCounters(prev) ==
    {q \in 1..Len(proposals) :
        proposals[q].prev = prev /\ proposals[q].issuer = Us}

C22_AtMostOne ==
    \A prev \in 1..MaxProposals :
        /\ Cardinality(OurCounters(prev)) <= 1
        /\ Cardinality({i \in 1..Len(sent) :
                          sent[i].id \in OurCounters(prev)}) <= 1

Unsent(q) ==
    /\ q \in 1..Len(proposals)
    /\ proposals[q].issuer = Us
    /\ ~Delivered(q)
    /\ \A t \in Tasks : ~(task[t].kind = "counter" /\ task[t].pc = "send"
                           /\ task[t].new = q)

\* C23: a counter_proposal whose send fails returns Send with the id of the
\* previous Proposal, leaves the new Proposal stored and the countered
\* counter alone; a later counter_proposal on the same previous Proposal
\* fails with AlreadyCountered and stores nothing, and the unsent Proposal
\* is never delivered.
C23_FailedSendLeavesCounterUnsent ==
    /\ [][\A t \in Tasks :
             /\ task[t].kind = "counter" /\ task[t].pc = "send"
             /\ Stepped(t) /\ sent' = sent
             => /\ ret' = Event("counter_proposal", task[t].aid,
                                task[t].who, "Send", "-", task[t].new)
                /\ proposals' = proposals
                /\ countered' = countered
                /\ \A q \in 1..MaxProposals :
                      q = task[t].new => Unsent(q)']_vars
    /\ [][\A t \in Tasks :
             /\ task[t].kind = "counter" /\ task[t].pc = "store"
             /\ Stepped(t)
             /\ \E q \in OurCounters(task[t].aid) : Unsent(q)
             => /\ ret'.res = "AlreadyCountered"
                /\ proposals' = proposals]_vars
    /\ [][\A q \in 1..MaxProposals : Unsent(q) => Unsent(q)']_vars

C23_Witness ==
    /\ ret.op = "counter_proposal" /\ ret.res = "AlreadyCountered"
    /\ \E q \in OurCounters(ret.aid) : Unsent(q)
    /\ countered = 0 /\ sent = <<>>


\* C24: reject_proposal has the Proposal stored as Rejected before it sends
\* RejectProposal; when the send fails the call returns the Send error, the
\* Proposal stays Rejected and rejected.by-us is not incremented.
C24_RejectCommittedBeforeSend ==
    [][\A t \in Tasks :
          /\ task[t].kind = "reject" /\ task[t].pc = "send" /\ Stepped(t)
          => /\ proposals[task[t].aid].state = "Rejected"
             /\ proposals' = proposals
             /\ \/ /\ ret' = Event("reject_proposal", task[t].aid,
                                   task[t].who, "Send", "-", 0)
                   /\ sent' = sent
                   /\ rejected_by_us' = rejected_by_us
                \/ /\ ret' = Event("reject_proposal", task[t].aid,
                                   task[t].who, "Ok", "-", 0)
                   /\ sent' = Append(sent, [msg |-> "reject_proposal",
                                            id |-> task[t].aid])
                   /\ rejected_by_us' = rejected_by_us + 1]_vars

C24_Witness ==
    /\ ret.op = "reject_proposal" /\ ret.res = "Send"
    /\ proposals[ret.aid].state = "Rejected"
    /\ rejected_by_us = 0 /\ sent = <<>>


\* C25: a reject_proposal on a Proposal that is already Rejected is a no-op:
\* it changes no stored state, sends no further RejectProposal and does not
\* increment rejected.by-us again.
C25_SecondRejectIsNoOp ==
    [][\A t \in Tasks :
          /\ task[t].kind = "reject" /\ Stepped(t)
          /\ task[t].aid \in 1..Len(proposals)
          /\ proposals[task[t].aid].state = "Rejected"
          /\ task[t].pc = "send" => ~task[t].first
          => /\ proposals' = proposals
             /\ sent' = sent
             /\ rejected_by_us' = rejected_by_us]_vars


\* C26: the pump passes the matches to generate_proposal one at a time in
\* the order they were sent; a failed generate_proposal leaves it receiving;
\* it ends only with the channel closed and drained; and every match sent is
\* passed to generate_proposal in the end.
C26_PumpNeverStopsOnError ==
    /\ [][/\ \A i \in 1..Len(handled') : handled'[i].match = i
          /\ Len(handled') \in {Len(handled), Len(handled) + 1}
          /\ (pump.pc = "generate" /\ pump'.pc # "generate")
             => /\ pump'.pc = "recv"
                /\ Len(handled') = Len(handled) + 1
          /\ (pump.pc # "ended" /\ pump'.pc = "ended")
             => /\ ~senderAlive /\ matches = <<>>
                /\ Len(handled) = MatchesSent
          /\ pump.pc = "ended" => pump'.pc = "ended"]_vars
    /\ <>[](Len(handled) = MatchesSent)

C26_Witness ==
    /\ pump.pc = "ended"
    /\ Len(handled) = MaxMatches
    /\ ~handled[1].ok /\ handled[2].ok


\* The lock of a is held by a task inside its critical section on a, or free.
C27_HeldInside ==
    \A a \in AgreementIds :
        lock[a] # 0 => InCritical(lock[a]) /\ task[lock[a]].aid = a

\* C27: the AgreementLock is held only by a task inside its critical
\* section, so every way out of the section (success, NotFound, invalid
\* transition, failed propose_agreement, failed Store call, failed approve)
\* releases it; and with the calls inside the sections returning, every task
\* waiting for the lock gets it: from some point on the lock is free and no
\* task waits for it.
C27_LockReleasedOnEveryExit ==
    /\ [][C27_HeldInside']_vars
    /\ [][\A t \in Tasks :
             InCritical(t) /\ (task'[t] = Idle \/ task'[t].pc = "notify")
             => lock[task[t].aid] = t /\ lock'[task[t].aid] = 0]_vars
    /\ <>[](\A t \in Tasks :
               task[t].pc # "lock" /\ lock[3] = 0)

\* A failed approve released the lock another callback is waiting for.
C27_Witness ==
    /\ ret.op = "commit_agreement" /\ ret.res = "InternalError"
    /\ lock[3] = 0
    /\ \E t \in Tasks : task[t].pc = "lock"


C29_ApprovingStoredByCallback ==
    [][\A t \in Tasks :
          /\ (/\ task[t].kind = "approved" /\ Stepped(t)
              /\ ret'.op = "agreement_approved" /\ ret'.res = "Ok")
             => AgrNext(task[t].aid).state = "Approving"
          /\ (/\ task[t].kind = "commit" /\ task[t].pc = "approve"
              /\ Stepped(t)
              /\ AgrNext(task[t].aid).state = "Approved")
             => Agr(task[t].aid).state = "Approving"]_vars


ApproveFails(t) ==
    /\ task[t].kind = "commit" /\ task[t].pc = "approve"
    /\ task'[t] = Idle

\* C31: a failed Store.approve inside commit_agreement is mapped to Expired
\* when the Store refuses the transition from Expired, to InvalidState(from)
\* when it refuses it from any other state, and to InternalError for every
\* other failure; the table is left as it was and the lock is released.
C31_ApproveFailureMapped ==
    [][\A t \in Tasks :
          ApproveFails(t)
          => LET st == Agr(task[t].aid).state IN
             /\ ret'.op = "commit_agreement"
             /\ ret'.res \in {"Expired", "InvalidState", "InternalError"}
             /\ ret'.res = "Expired" => st = "Expired"
             /\ ret'.res = "InvalidState"
                => /\ ret'.from = st
                   /\ st # "Expired"
                   /\ ~validate_transition(st, "Approved")
             /\ ret'.res = "InternalError" => ret'.from = "-"
             /\ agreements' = agreements
             /\ lock'[task[t].aid] = 0
             /\ approved' = approved]_vars

\* An approve was refused for an Agreement that expired before the commit.
C31_Witness ==
    /\ ret.op = "commit_agreement" /\ ret.res = "Expired"
    /\ Agr(3).state = "Expired"
    /\ lock[3] = 0

\* C32: a wait_for_approval call enters the notifier wait at most once: a
\* call that was woken never stands in the wait again, because the state it
\* reads after the wake-up is not Pending and its select step returns.
C32_WaitEnteredAtMostOnce ==
    [][\A t \in Tasks :
          /\ task[t].kind = "wait" /\ task[t].woken
             => /\ task[t].pc = "select"
                /\ Agr(task[t].aid).state # "Pending"
          /\ task[t].kind = "wait" /\ task[t].woken /\ Stepped(t)
             => /\ task'[t] = Idle
                /\ ret'.op = "wait_for_approval"
                /\ ret'.res # "Timeout"]_vars

\* A call was woken by the notification of the approval and is about to
\* read the Agreement, stored as Approved, again.
C32_Witness ==
    /\ approved = 1
    /\ Agr(3).state = "Approved"
    /\ \E t \in Tasks : /\ task[t].kind = "wait" /\ task[t].woken
                         /\ task[t].pc = "select"

\* The positions of the convertible events of a sequence.
Convertible(events) == {i \in 1..Len(events) : events[i].ok}

\* C33: query_events fails only when common.query_events failed, never
\* because an event could not be converted: the convertible events are
\* returned, converted, in their original order, the others are left out,
\* and the queried counter grows by the number of events returned.
C33_BadEventsDroppedNotFailed ==
    [][ops' # ops /\ ret'.op = "query_events"
       => LET events == query'.events
              out == query'.out
          IN
          /\ ret'.res = query'.res
          /\ query'.res = "Ok" <=> query'.common
          /\ query'.res = "Err" => out = <<>>
          /\ query'.common
             => /\ Len(out) = Cardinality(Convertible(events))
                /\ \A i \in Convertible(events) :
                      out[Cardinality({k \in Convertible(events) : k <= i})]
                         = ClientEvent(events[i])
          /\ queried' = queried + Len(out)]_vars

\* A query whose second of three events could not be converted returned the
\* first and the third, and counted two.
C33_Witness ==
    /\ query.res = "Ok"
    /\ Len(query.events) = 3
    /\ query.events[1].ok /\ ~query.events[2].ok /\ query.events[3].ok
    /\ query.out = <<ClientEvent(query.events[1]),
                     ClientEvent(query.events[3])>>
    /\ queried = 2

\* C34 as stated: for every Agreement at most one AgreementApproved is
\* accepted, so at most one commit_agreement continuation is scheduled for
\* it: a callback is never accepted while the continuation of an earlier
\* accepted callback is still in flight.
C34_AcceptedAtMostOnce ==
    [][\A t \in Tasks :
          /\ task[t].kind = "approved" /\ task[t].pc = "select"
          /\ ret'.op = "agreement_approved" /\ ret'.res = "Ok"
          /\ task'[t].kind = "commit"
          => \A u \in Tasks : ~(/\ task[u].kind = "commit"
                                /\ task[u].aid = task[t].aid)]_vars

\* The AgreementApproved callback has just returned Ok to the Provider.
Accepted == ret.op = "agreement_approved" /\ ret.res = "Ok"

CallbackStep(t) == task[t].kind = "approved" /\ Stepped(t)

\* The step is the write of Approved by the Store.approve of a
\* commit_agreement that holds the lock.
ApproveWrites(a) ==
    \E t \in Tasks : /\ task[t].kind = "commit" /\ task[t].pc = "approve"
                     /\ task[t].aid = a
                     /\ lock[a] = t
                     /\ Stepped(t)

\* C36 as stated: the only change a step of the callback makes to the
\* table is the expiry of a Pending Agreement by its select.
C36_CallbackOnlyExpiresPending ==
    [][\A t \in Tasks :
          CallbackStep(t)
          => \/ agreements' = agreements
             \/ /\ Agr(task[t].aid).state = "Pending"
                /\ agreements' = Put(task[t].aid,
                      [Agr(task[t].aid) EXCEPT !.state = "Expired"])]_vars

\* C36: the callback writes nothing of its own: its steps leave the table
\* as it is, except that its select stores Expired over a Proposal or
\* Pending Agreement whose valid_to has passed; the state Approved and
\* approved_ts are written only by the Store.approve of a commit_agreement
\* holding the lock, when no callback holds it.
C36_CallbackWritesNothing ==
    [][/\ \A t \in Tasks :
             CallbackStep(t)
             => \/ agreements' = agreements
                \/ /\ task[t].pc = "select"
                   /\ Agr(task[t].aid).state \in {"Proposal", "Pending"}
                   /\ Agr(task[t].aid).valid_to <= now
                   /\ agreements' = Put(task[t].aid,
                         [Agr(task[t].aid) EXCEPT !.state = "Expired"])
       /\ \A a \in AgreementIds :
             \/ /\ AgrNext(a).state = "Approved"
                /\ Agr(a).state # "Approved"
             \/ AgrNext(a).approved_ts # Agr(a).approved_ts
             \/ AgrNext(a).session # Agr(a).session
                /\ Agr(a) # NoAgreement
             => \/ ApproveWrites(a) /\ AgrNext(a).session = Agr(a).session
                \/ \E t \in Tasks : /\ task[t].kind = "confirm"
                                    /\ lock[a] = t
                                    /\ Stepped(t)]_vars

\* The callback was accepted and has returned Ok: the Agreement is still
\* stored as Pending, without approved_ts, and the commit is in flight.
C36_Witness ==
    /\ ret.op = "agreement_approved" /\ ret.res = "Ok"
    /\ Agr(3).state = "Pending" /\ Agr(3).approved_ts = -1
    /\ \E t \in Tasks : task[t].kind = "commit" /\ task[t].pc = "lock"

\* The select step of a confirm_agreement t made after a confirm_agreement
\* of the same Agreement succeeded.
LaterConfirm(t) ==
    /\ task[t].kind = "confirm" /\ task[t].pc = "select"
    /\ wasPending[task[t].aid]
    /\ Stepped(t)

\* C37 as stated, for the owner of the Agreement: a confirm_agreement made
\* after one succeeded fails with InvalidTransition and leaves the stored
\* row as it is.
C37_LaterConfirmChangesNothing ==
    [][\A t \in Tasks :
          LaterConfirm(t) /\ task[t].who = Agr(task[t].aid).requestor
          => /\ ret'.res = "InvalidTransition"
             /\ agreements' = agreements]_vars

\* C37: a confirm_agreement made after one succeeded for the same id ends at
\* its validation: it fails with InvalidTransition (NotFound for an identity
\* that does not own the Agreement), sends no propose_agreement, does not
\* count, and leaves the stored row unchanged except that its select stores
\* Expired over a Pending Agreement whose valid_to has passed;
\* app_session_id is never changed.  propose_agreement is sent only for an
\* Agreement that has never been stored as Pending.
C37_LaterConfirmFailsEarly ==
    [][/\ \A t \in Tasks :
             LaterConfirm(t)
             => LET a == task[t].aid
                    owner == task[t].who = Agr(a).requestor
                IN
                /\ task'[t] = Idle
                /\ ret'.op = "confirm_agreement"
                /\ ret'.res = IF owner THEN "InvalidTransition"
                              ELSE "NotFound"
                /\ proposed' = proposed
                /\ confirmed' = confirmed
                /\ lock'[a] = 0
                /\ AgrNext(a).session = Agr(a).session
                /\ \/ agreements' = agreements
                   \/ /\ owner
                      /\ Agr(a).state = "Pending"
                      /\ Agr(a).valid_to <= now
                      /\ agreements' =
                            Put(a, [Agr(a) EXCEPT !.state = "Expired"])
       /\ \A a \in AgreementIds :
             proposed'[a] # proposed[a]
             => /\ ~wasPending[a]
                /\ confirmed' = confirmed]_vars

\* A second confirm_agreement of the owner, made after the first succeeded,
\* has failed at its validation; one propose_agreement was sent.
C37_Witness ==
    /\ ret.op = "confirm_agreement" /\ ret.res = "InvalidTransition"
    /\ ret.from = "Pending"
    /\ confirmed = 1 /\ proposed[3] = 1
    /\ Agr(3).state = "Pending"

\* The step in which wait_for_approval t returns Ok(Cancelled).
ReturnsCancelled(t) ==
    /\ task[t].kind = "wait" /\ Stepped(t)
    /\ ret'.op = "wait_for_approval" /\ ret'.res = "Cancelled"

\* C38 as stated: when wait_for_approval returns Ok(Cancelled) the
\* Agreement is not stored as Approved.
C38_CancelledNeverWhileApproved ==
    [][\A t \in Tasks :
          ReturnsCancelled(t) => Agr(task[t].aid).state # "Approved"]_vars

\* C38: wait_for_approval returns Ok(Cancelled) either for an Agreement it
\* read as Cancelled or, without reading the Agreement again, for the
\* Unsubscribed disposition of its subscription, whatever the stored state
\* is by then.  The disposition reaches a waiting call of an Approved
\* Agreement only between the approve of commit_agreement and its
\* notification, or earlier, while the Agreement was not yet Approved.
C38_CancelledWhenUnsubscribedBeforeNotify ==
    [][\A t \in Tasks :
          /\ ReturnsCancelled(t)
             => \/ /\ task[t].pc = "select"
                   /\ AgrNext(task[t].aid).state = "Cancelled"
                \/ /\ task[t].pc = "wait" /\ task[t].sub = "unsubscribed"
                   /\ ret'.from = "Unsubscribed"
                   /\ agreements' = agreements
          /\ /\ task[t].kind = "wait" /\ task[t].pc = "wait"
             /\ task[t].sub # "unsubscribed"
             /\ task'[t].sub = "unsubscribed"
             /\ Agr(task[t].aid).state = "Approved"
             => /\ task[t].sub = "empty"
                /\ \E u \in Tasks : /\ task[u].kind = "commit"
                                    /\ task[u].pc = "notify"
                                    /\ task[u].aid = task[t].aid]_vars

\* A waiting call was unsubscribed after commit_agreement stored Approved
\* and before it notified, and returned Ok(Cancelled) for the Approved
\* Agreement.
C38_Witness ==
    /\ ret.op = "wait_for_approval" /\ ret.res = "Cancelled"
    /\ ret.from = "Unsubscribed"
    /\ Agr(3).state = "Approved"
    /\ approved = 0
    /\ \E u \in Tasks : task[u].kind = "commit" /\ task[u].pc = "notify"

\* The select step of an AgreementApproved callback t of the Provider of an
\* Agreement that is stored in a state other than Pending.
CallbackOnNotPending(t) ==
    /\ task[t].kind = "approved" /\ task[t].pc = "select"
    /\ Stepped(t)
    /\ Agr(task[t].aid) # NoAgreement
    /\ Agr(task[t].aid).provider = task[t].who
    /\ Agr(task[t].aid).state # "Pending"

\* C39 as stated: such a callback leaves the stored row as it is.
C39_NotPendingCallbackChangesNothing ==
    [][\A t \in Tasks :
          CallbackOnNotPending(t) => agreements' = agreements]_vars

\* C39: an AgreementApproved of the Provider for an Agreement that is not
\* Pending fails with InvalidState naming the state select returned,
\* schedules no commit_agreement and releases the lock; it leaves the stored
\* row unchanged, except that its select stores Expired over an unconfirmed
\* (Proposal) Agreement whose valid_to has passed.
C39_NotPendingCallbackRefused ==
    [][\A t \in Tasks :
          CallbackOnNotPending(t)
          => LET a == task[t].aid IN
             /\ ret'.op = "agreement_approved"
             /\ ret'.res = "InvalidState"
             /\ ret'.from = AgrNext(a).state
             /\ task'[t] = Idle
             /\ \A u \in Tasks :
                   task'[u].kind = "commit" => task[u].kind = "commit"
             /\ lock'[a] = 0
             /\ \/ agreements' = agreements
                \/ /\ Agr(a).state = "Proposal"
                   /\ Agr(a).valid_to <= now
                   /\ agreements' =
                         Put(a, [Agr(a) EXCEPT !.state = "Expired"])]_vars

\* The Provider's AgreementApproved for a Rejected Agreement was refused.
C39_Witness ==
    /\ ret.op = "agreement_approved" /\ ret.res = "InvalidState"
    /\ ret.from = "Rejected" /\ ret.who = "prov1"
    /\ Agr(3).state = "Rejected"
    /\ \A u \in Tasks : task[u].kind # "commit"

====
